---- MODULE Spec2Model ----
(***************************************************************************)
(* poker-now_analyzer: ingestion of PokerNow hand-history files            *)
(* (src/ingest.py) into an SQLite event store, and the statistics queries  *)
(* of src/analytics.py over that store.                                    *)
(*                                                                         *)
(* Amounts are kept in hundredths of a unit, so that get_val's division    *)
(* by 100 for files in cents stays exact.                                  *)
(***************************************************************************)
EXTENDS Integers, Sequences, FiniteSets, TLC

VARIABLES
    dir,            \* files present in the input directory
    todo,           \* files_to_process not yet visited by the loop
    pc,             \* position of process_directory / parse_json
    cur,            \* json_file of the current iteration
    content,        \* what has been read from each file: a sequence of hands
    db,             \* the database as committed
    tx,             \* the database as seen by parse_json's connection
    hand_id,        \* parse_json locals of the current hand
    is_cents,
    seat_to_id,
    stage,
    pot_size,
    failed,         \* files reported by "Error processing ..."
    processed_any,
    player_priors,  \* the player_priors table as committed
    call,           \* the analytics call of the last step: name, arguments, result
    conn            \* the connection of PokerAnalytics: the run in progress and
                    \* the player_priors table as the connection sees it

vars == <<dir, todo, pc, cur, content, db, tx, hand_id, is_cents, seat_to_id,
          stage, pot_size, failed, processed_any, player_priors, call, conn>>

(***************************************************************************)
(* Bounds of the model.                                                    *)
(***************************************************************************)
MaxHands == 3       \* hands read in one run of process_directory (Spec)
MaxRaw == 2         \* raw events read in one run (Spec)
MaxParseHands == 1  \* the same two bounds for SpecParse
MaxParseRaw == 2
MaxMoneyHands == 2  \* ... for SpecMoney
MaxMoneyRaw == 2
MaxStatHands == 1   \* ... for SpecStats
MaxStatRaw == 3
MaxShowHands == 1   \* ... for SpecShow
MaxShowRaw == 3
MaxPriorsHands == 2 \* ... for SpecPriors
MaxPriorsRaw == 2
MaxBetHands == 1    \* ... for SpecBets
MaxBetRaw == 3
MaxCardHands == 2   \* ... for SpecCards
MaxCardRaw == 2
MaxNameHands == 3   \* ... for SpecNames
MaxNameRaw == 1
MaxAtomicHands == 2 \* ... for SpecAtomic
MaxAtomicRaw == 2
MaxPctHands == 2    \* ... for SpecPct
MaxPctRaw == 5
MaxRetryHands == 1  \* ... for SpecRetry
MaxRetryRaw == 2
MaxRetryRows == 3   \* a later run starts while fewer event rows are stored
MaxPosRank == 10    \* ranks and participant counts given to map_pos (SpecPure)
MaxPosPlayers == 10
MaxTagHands == 12   \* total_hands given to the profile tag (SpecPure)

(***************************************************************************)
(* Values standing for absent JSON fields and for Python's None.           *)
(***************************************************************************)
Missing == "MISSING"        \* a required string field that is absent
NoField == -1               \* an absent numeric field
None == "NONE"              \* Python None
Dealer == "Dealer"

Streets == <<"Preflop", "Flop", "Turn", "River", "Showdown">>

\* datetime.fromtimestamp(ms / 1000).isoformat(): seconds and the fraction
IsoFormat(ms) == <<ms \div 1000, ms % 1000>>

\* get_val: major units, here in hundredths
get_val(val, cents) == IF cents THEN val ELSE val * 100

\* payload.get('value', 0) and, for a collect, payload.get('value', payload.get('pot', 0))
PayloadValue(payload) == IF payload.value = NoField THEN 0 ELSE payload.value
CollectValue(payload) ==
    IF payload.value # NoField THEN payload.value
    ELSE IF payload.pot # NoField THEN payload.pot ELSE 0

\* a table of posts that forgets the straddle code
PostCodesNoStraddle == {4, 5, 6}

PostCodes == {4, 5, 6, 14}

\* The if/elif chain of parse_json: the action of a payload (None when a board
\* deal carries no turn in 1..3).
ActionOf(payload) ==
    CASE payload.type = 3 -> "post_sb"
      [] payload.type = 2 -> "post_bb"
      [] payload.type \in PostCodes -> "post_other"
      [] payload.type = 11 -> "fold"
      [] payload.type = 0 -> "check"
      [] payload.type = 7 -> "call"
      [] payload.type = 8 -> "raise"
      [] payload.type = 16 -> "returned"
      [] payload.type = 10 -> "collect"
      [] payload.type = 12 -> "show"
      [] payload.type = 9 ->
            (CASE payload.turn = 1 -> "deal_flop"
               [] payload.turn = 2 -> "deal_turn"
               [] payload.turn = 3 -> "deal_river"
               [] OTHER -> None)
      [] OTHER -> "other"

\* The amount of the stored row.
AmountOf(payload, cents) ==
    CASE payload.type \in {3, 2, 7, 8, 16} \cup PostCodes ->
            get_val(PayloadValue(payload), cents)
      [] payload.type = 10 -> get_val(CollectValue(payload), cents)
      [] OTHER -> 0

\* pot_size after the payload: posts and calls add, a return subtracts, a
\* raise (type 8) leaves it as it is.
PotAfter(pot, payload, cents) ==
    CASE payload.type \in {3, 2, 7} \cup PostCodes ->
            pot + get_val(PayloadValue(payload), cents)
      [] payload.type = 16 -> pot - get_val(PayloadValue(payload), cents)
      [] OTHER -> pot

\* stage after the payload.
StageAfter(st, payload) ==
    CASE payload.type \in {10, 12} -> "Showdown"
      [] payload.type = 9 ->
            (CASE payload.turn = 1 -> "Flop"
               [] payload.turn = 2 -> "Turn"
               [] payload.turn = 3 -> "River"
               [] OTHER -> st)
      [] OTHER -> st

\* seat_to_id.get(seat) if seat else None, overridden by 'Dealer' on a board deal
PlayerOf(payload, seats) ==
    IF payload.type = 9 THEN Dealer
    ELSE IF payload.seat # 0 /\ payload.seat \in DOMAIN seats
         THEN seats[payload.seat] ELSE None

\* a store test that forgets the player
StoredAnyPlayer(action, player) == action # None

\* if action and player_id:
Stored(action, player) == action # None /\ player # None

(***************************************************************************)
(* The tables of init_db.  INSERT OR IGNORE keeps the row already holding  *)
(* the primary key.                                                        *)
(***************************************************************************)
EmptyDb == [hands |-> {}, players |-> {}, player_hand_cards |-> {}, events |-> <<>>]

InsertPlayer(t, pid, pname) ==
    IF \E r \in t.players : r.player_id = pid /\ r.player_name = pname
    THEN t
    ELSE [t EXCEPT !.players = @ \cup {[player_id |-> pid, player_name |-> pname]}]

InsertCards(t, hid, pid, cards) ==
    IF \E r \in t.player_hand_cards : r.hand_id = hid /\ r.player_id = pid
    THEN t
    ELSE [t EXCEPT !.player_hand_cards =
            @ \cup {[hand_id |-> hid, player_id |-> pid, hole_cards |-> cards]}]

\* INSERT OR REPLACE in place of INSERT OR IGNORE
InsertHandReplace(t, hid, dealer, started) ==
    [t EXCEPT !.hands = {r \in @ : r.hand_id # hid}
            \cup {[hand_id |-> hid, dealer_name |-> dealer, started_at |-> started]}]

InsertHand(t, hid, dealer, started) ==
    IF \E r \in t.hands : r.hand_id = hid
    THEN t
    ELSE [t EXCEPT !.hands =
            @ \cup {[hand_id |-> hid, dealer_name |-> dealer, started_at |-> started]}]

\* INSERT INTO events: the id is the AUTOINCREMENT key
InsertEvent(t, row) ==
    [t EXCEPT !.events = Append(@, [row EXCEPT !.id = Len(t.events) + 1])]

(***************************************************************************)
(* The players loop of one hand.  A player lacking id, name or seat raises *)
(* KeyError; the players before it have been inserted by then.             *)
(***************************************************************************)
PlayerOk(p) == p.id # Missing /\ p.name # Missing /\ p.seat # NoField

\* ','.join(cards) of two cards, a text being the sequence of its
\* characters; an absent or empty 'hand' gives no row
JoinCards(cards) == cards[1] \o <<",">> \o cards[2]

RECURSIVE LoadPlayers(_, _, _, _)
LoadPlayers(ps, hid, t, seats) ==
    IF ps = <<>> THEN [raised |-> FALSE, t |-> t, seats |-> seats]
    ELSE LET p == Head(ps) IN
         IF ~PlayerOk(p) THEN [raised |-> TRUE, t |-> t, seats |-> seats]
         ELSE LET t1 == InsertPlayer(t, p.id, p.name)
                  t2 == IF p.hand # <<>> THEN InsertCards(t1, hid, p.id, JoinCards(p.hand))
                        ELSE t1
                  s2 == [s \in DOMAIN seats \cup {p.seat} |->
                            IF s = p.seat THEN p.id ELSE seats[s]]
              IN LoadPlayers(Tail(ps), hid, t2, s2)

\* What hand['id'] and hand['startedAt'] raise on.
HeaderOk(h) == h.id # Missing /\ h.startedAt # NoField

NoSeats == [s \in {} |-> None]

(***************************************************************************)
(* process_directory and parse_json, one step per file, hand and event.    *)
(* R is the set of raw events and H the set of hand records the files are  *)
(* drawn from; mh and mr bound the hands and events read in a run.         *)
(***************************************************************************)
HandsRead == LET RECURSIVE Sum(_)
                 Sum(S) == IF S = {} THEN 0
                           ELSE LET f == CHOOSE f \in S : TRUE
                                IN Len(content[f]) + Sum(S \ {f})
             IN Sum(DOMAIN content)

RECURSIVE SumLens(_)
SumLens(hs) == IF hs = <<>> THEN 0 ELSE Len(Head(hs).events) + SumLens(Tail(hs))

RawRead == LET RECURSIVE Sum(_)
               Sum(S) == IF S = {} THEN 0
                         ELSE LET f == CHOOSE f \in S : TRUE
                              IN SumLens(content[f]) + Sum(S \ {f})
           IN Sum(DOMAIN content)

\* ingestion makes no analytics call and leaves player_priors alone
NoCall == [op |-> "none"]
\* no run in progress and no open transaction: view is <<>>, or <<t>> for the
\* table t of an open transaction
Closed == [at |-> "idle", rows |-> {}, all |-> {}, view |-> <<>>]
NoCalls == player_priors' = player_priors /\ call' = NoCall /\ conn' = conn

\* The except branch of process_directory: the connection of parse_json is
\* dropped with its transaction open, which rolls it back; the file stays.
Raise ==
    /\ tx' = db
    /\ failed' = failed \cup {cur}
    /\ pc' = "loop"
    /\ hand_id' = None
    /\ seat_to_id' = NoSeats
    /\ stage' = "Preflop"
    /\ pot_size' = 0
    /\ is_cents' = FALSE
    /\ NoCalls /\ UNCHANGED <<dir, todo, cur, db, processed_any>>

\* for json_file in files_to_process: parse_json opens the file and loads it
OpenFile ==
    /\ pc = "loop"
    /\ \E f \in todo :
        /\ cur' = f
        /\ todo' = todo \ {f}
    /\ pc' = "hands"
    /\ NoCalls /\ UNCHANGED <<dir, content, db, tx, hand_id, is_cents, seat_to_id, stage,
                              pot_size, failed, processed_any>>

\* json.load raises on a file that is not JSON
OpenFails ==
    /\ pc = "loop"
    /\ \E f \in todo :
        /\ cur' = f
        /\ todo' = todo \ {f}
        /\ failed' = failed \cup {f}
    /\ NoCalls /\ UNCHANGED <<dir, pc, content, db, tx, hand_id, is_cents, seat_to_id, stage,
                              pot_size, processed_any>>

\* for hand in data.get('hands', []): up to the events loop
BeginHand(H, mh) ==
    /\ pc = "hands"
    /\ HandsRead < mh
    /\ \E h \in H :
        /\ content' = [content EXCEPT ![cur] = Append(@, [hdr |-> h, events |-> <<>>])]
        /\ IF ~HeaderOk(h) THEN Raise
           ELSE LET lp == LoadPlayers(h.players, h.id, tx, NoSeats) IN
                IF lp.raised THEN Raise
                ELSE /\ tx' = InsertHand(lp.t, h.id,
                                 IF h.dealerSeat \in DOMAIN lp.seats
                                 THEN lp.seats[h.dealerSeat] ELSE "Unknown",
                                 IsoFormat(h.startedAt))
                     /\ hand_id' = h.id
                     /\ is_cents' = h.cents
                     /\ seat_to_id' = lp.seats
                     /\ stage' = "Preflop"
                     /\ pot_size' = 0
                     /\ pc' = "events"
                     /\ NoCalls /\ UNCHANGED <<dir, todo, cur, db, failed, processed_any>>

\* for event in hand.get('events', []): one iteration
ParseEvent(R, mr) ==
    /\ pc = "events"
    /\ RawRead < mr
    /\ \E e \in R :
        /\ content' = [content EXCEPT ![cur][Len(content[cur])].events = Append(@, e)]
        /\ IF e.at = NoField THEN Raise
           ELSE LET payload == e.payload
                    action == ActionOf(payload)
                    player == PlayerOf(payload, seat_to_id)
                    pot == PotAfter(pot_size, payload, is_cents)
                    st == StageAfter(stage, payload)
                IN /\ pot_size' = pot
                   /\ stage' = st
                   /\ tx' = IF Stored(action, player)
                            THEN InsertEvent(tx,
                                   [id |-> 0, hand_id |-> hand_id, player_id |-> player,
                                    action |-> action,
                                    amount |-> AmountOf(payload, is_cents),
                                    pot_size |-> pot, stage |-> st,
                                    timestamp |-> IsoFormat(e.at),
                                    raw_entry |-> payload])
                            ELSE tx
                   /\ NoCalls /\ UNCHANGED <<dir, todo, pc, cur, db, hand_id, is_cents,
                                             seat_to_id, failed, processed_any>>

\* the events of the hand are exhausted
EndHand ==
    /\ pc = "events"
    /\ pc' = "hands"
    /\ NoCalls /\ UNCHANGED <<dir, todo, cur, content, db, tx, hand_id, is_cents, seat_to_id,
                              stage, pot_size, failed, processed_any>>

\* a parse_json that closes the connection without committing
CloseWithoutCommit ==
    /\ pc = "hands"
    /\ pc' = "move"
    /\ NoCalls /\ UNCHANGED <<dir, todo, cur, content, db, tx, hand_id, is_cents, seat_to_id,
                              stage, pot_size, failed, processed_any>>

\* the hands of the file are exhausted: conn.commit(); conn.close()
Commit ==
    /\ pc = "hands"
    /\ db' = tx
    /\ pc' = "move"
    /\ NoCalls /\ UNCHANGED <<dir, todo, cur, content, tx, hand_id, is_cents, seat_to_id,
                              stage, pot_size, failed, processed_any>>

\* shutil.move(json_file, dest_path); processed_any = True
MoveFile ==
    /\ pc = "move"
    /\ dir' = dir \ {cur}
    /\ processed_any' = TRUE
    /\ pc' = "loop"
    /\ NoCalls /\ UNCHANGED <<todo, cur, content, db, tx, hand_id, is_cents, seat_to_id,
                              stage, pot_size, failed>>

\* shutil.move raises: the rows are committed, the file stays and is reported
MoveFails ==
    /\ pc = "move"
    /\ failed' = failed \cup {cur}
    /\ pc' = "loop"
    /\ NoCalls /\ UNCHANGED <<dir, todo, cur, content, db, tx, hand_id, is_cents, seat_to_id,
                              stage, pot_size, processed_any>>

\* return processed_any
Return ==
    /\ pc = "loop"
    /\ todo = {}
    /\ pc' = "done"
    /\ NoCalls /\ UNCHANGED <<dir, todo, cur, content, db, tx, hand_id, is_cents, seat_to_id,
                              stage, pot_size, failed, processed_any>>

(***************************************************************************)
(* parse_json over a whole file, for a run that reads a file again: the    *)
(* hands hs of the file are loaded into the tables t as the steps above    *)
(* load them.  raised tells that an exception left parse_json, and then    *)
(* nothing of the file is committed.                                       *)
(***************************************************************************)
RECURSIVE ParseEvents(_, _, _, _, _, _, _)
ParseEvents(es, t, hid, cents, seats, st, pot) ==
    IF es = <<>> THEN [raised |-> FALSE, t |-> t]
    ELSE LET e == Head(es) IN
         IF e.at = NoField THEN [raised |-> TRUE, t |-> t]
         ELSE LET payload == e.payload
                  action == ActionOf(payload)
                  player == PlayerOf(payload, seats)
                  pot2 == PotAfter(pot, payload, cents)
                  st2 == StageAfter(st, payload)
                  t2 == IF Stored(action, player)
                        THEN InsertEvent(t,
                               [id |-> 0, hand_id |-> hid, player_id |-> player,
                                action |-> action,
                                amount |-> AmountOf(payload, cents),
                                pot_size |-> pot2, stage |-> st2,
                                timestamp |-> IsoFormat(e.at),
                                raw_entry |-> payload])
                        ELSE t
              IN ParseEvents(Tail(es), t2, hid, cents, seats, st2, pot2)

RECURSIVE parse_json(_, _)
parse_json(hs, t) ==
    IF hs = <<>> THEN [raised |-> FALSE, t |-> t]
    ELSE LET h == Head(hs).hdr IN
         IF ~HeaderOk(h) THEN [raised |-> TRUE, t |-> t]
         ELSE LET lp == LoadPlayers(h.players, h.id, t, NoSeats) IN
              IF lp.raised THEN [raised |-> TRUE, t |-> t]
              ELSE LET t1 == InsertHand(lp.t, h.id,
                                 IF h.dealerSeat \in DOMAIN lp.seats
                                 THEN lp.seats[h.dealerSeat] ELSE "Unknown",
                                 IsoFormat(h.startedAt))
                       pe == ParseEvents(Head(hs).events, t1, h.id, h.cents, lp.seats,
                                         "Preflop", 0)
                   IN IF pe.raised THEN pe ELSE parse_json(Tail(hs), pe.t)

\* process_directory is started again: glob finds the files that stayed
Rerun(mx) ==
    /\ pc = "done"
    /\ dir # {}
    /\ Len(db.events) < mx
    /\ todo' = dir
    /\ failed' = {}
    /\ processed_any' = FALSE
    /\ pc' = "rerun"
    /\ NoCalls /\ UNCHANGED <<dir, cur, content, db, tx, hand_id, is_cents, seat_to_id,
                              stage, pot_size>>

\* one iteration of the loop of the later run: parse_json reads the file as
\* it was read before, commits, and the move succeeds (moved) or raises
RetryFile(moved) ==
    /\ pc = "rerun"
    /\ \E f \in todo :
        LET r == parse_json(content[f], db) IN
        /\ cur' = f
        /\ todo' = todo \ {f}
        /\ db' = IF r.raised THEN db ELSE r.t
        /\ tx' = db'
        /\ dir' = IF ~r.raised /\ moved THEN dir \ {f} ELSE dir
        /\ failed' = IF r.raised \/ ~moved THEN failed \cup {f} ELSE failed
        /\ processed_any' = IF ~r.raised /\ moved THEN TRUE ELSE processed_any
    /\ NoCalls /\ UNCHANGED <<pc, content, hand_id, is_cents, seat_to_id, stage, pot_size>>

\* return processed_any of the later run
RerunReturn ==
    /\ pc = "rerun"
    /\ todo = {}
    /\ pc' = "done"
    /\ NoCalls /\ UNCHANGED <<dir, todo, cur, content, db, tx, hand_id, is_cents, seat_to_id,
                              stage, pot_size, failed, processed_any>>

(***************************************************************************)
(* analytics.py: the queries read the committed tables.  A query is a set  *)
(* of rows; a nullable column is the empty set (NULL) or a singleton.      *)
(***************************************************************************)
Events == {db.events[i] : i \in DOMAIN db.events}

RECURSIVE SumF(_, _)
SumF(f, S) == IF S = {} THEN 0
              ELSE LET x == CHOOSE x \in S : TRUE IN f[x] + SumF(f, S \ {x})

MaxF(f, S) == CHOOSE m \in {f[x] : x \in S} : \A x \in S : f[x] <= m

\* COALESCE(col, 0) of a left-joined column
Coalesce(col) == IF col = {} THEN 0 ELSE CHOOSE v \in col : TRUE

\* SUM(amount) in place of MAX(amount)
StreetSum(rows) == SumF([e \in rows |-> e.amount], rows)

\* MAX(amount) as street_max
StreetMax(rows) == MaxF([e \in rows |-> e.amount], rows)

WagerActions ==
    {"post_sb", "post_bb", "post_other", "call", "raise", "bet", "raise_to_amount"}

\* WITH player_street_investment: GROUP BY hand_id, stage
player_street_investment(P) ==
    LET rows == {e \in Events : e.player_id = P /\ e.action \in WagerActions}
        group(h, st) == {e \in rows : e.hand_id = h /\ e.stage = st}
    IN {[hand_id |-> g[1], stage |-> g[2], street_max |-> StreetMax(group(g[1], g[2]))] :
            g \in {<<e.hand_id, e.stage>> : e \in rows}}

\* player_investment: SUM(street_max) GROUP BY hand_id
player_investment(P) ==
    LET psi == player_street_investment(P) IN
    {[hand_id |-> h,
      invested |-> LET g == {r \in psi : r.hand_id = h}
                   IN SumF([r \in g |-> r.street_max], g)] :
        h \in {r.hand_id : r \in psi}}

\* player_returned and player_collected: SUM(amount) GROUP BY hand_id
player_amounts(P, act) ==
    LET rows == {e \in Events : e.player_id = P /\ e.action = act} IN
    {[hand_id |-> h,
      total |-> LET g == {e \in rows : e.hand_id = h}
                IN SumF([e \in g |-> e.amount], g)] :
        h \in {e.hand_id : e \in rows}}

player_returned(P) == player_amounts(P, "returned")
player_collected(P) == player_amounts(P, "collect")

\* stage = 'Preflop' AND (action LIKE 'post_%' OR action IN ('fold','call','raise','check'))
PositionActions == {"post_sb", "post_bb", "post_other", "fold", "call", "raise", "check"}
PositionEvents == {e \in Events : e.stage = "Preflop" /\ e.action \in PositionActions}

\* positions: GROUP BY hand_id, player_id leaves id a bare column, which
\* SQLite reads from a row of the group it does not name; bare gives, for
\* each group, the id it read.
PositionGroups == {<<e.hand_id, e.player_id>> : e \in PositionEvents}
GroupIds(g) == {e.id : e \in {x \in PositionEvents : x.hand_id = g[1] /\ x.player_id = g[2]}}

RECURSIVE BareReads(_)
BareReads(G) ==
    IF G = {} THEN {[g \in {} |-> 0]}
    ELSE LET g == CHOOSE g \in G : TRUE IN
         {f @@ (g :> v) : f \in BareReads(G \ {g}), v \in GroupIds(g)}

\* RANK() OVER(PARTITION BY hand_id ORDER BY id ASC)
positions(bare) ==
    {[hand_id |-> g[1], player_id |-> g[2],
      pos_rank |-> 1 + Cardinality({q \in PositionGroups :
                                      q[1] = g[1] /\ bare[q] < bare[g]})] :
        g \in PositionGroups}

\* hand_counts: COUNT(DISTINCT player_id) GROUP BY hand_id
hand_counts ==
    {[hand_id |-> h,
      num_players |-> Cardinality({e.player_id : e \in {x \in PositionEvents : x.hand_id = h}})] :
        h \in {e.hand_id : e \in PositionEvents}}

\* the rows of the query of get_profit_loss_by_position
pnl_rows(P, bare) ==
    {[hand_id |-> pi.hand_id,
      pos_rank |-> {pos.pos_rank : pos \in {x \in positions(bare) :
                        x.hand_id = pi.hand_id /\ x.player_id = P}},
      num_players |-> {hc.num_players : hc \in {x \in hand_counts : x.hand_id = pi.hand_id}},
      net_profit |->
          Coalesce({r.total : r \in {x \in player_collected(P) : x.hand_id = pi.hand_id}})
          + Coalesce({r.total : r \in {x \in player_returned(P) : x.hand_id = pi.hand_id}})
          - pi.invested] :
        pi \in player_investment(P)}

\* map_pos of get_profit_loss_by_position
map_pos(rank_col, n_col) ==
    IF rank_col = {} \/ n_col = {} THEN "Unknown"
    ELSE LET rank == CHOOSE r \in rank_col : TRUE
             n == CHOOSE m \in n_col : TRUE
         IN CASE n = 2 /\ rank = 1 -> "BTN/SB"
              [] n = 2 /\ rank = 2 -> "BB"
              [] n = 2 -> "Pos " \o ToString(rank)
              [] rank = 1 -> "SB"
              [] rank = 2 -> "BB"
              [] rank = n -> "BTN"
              [] rank = n - 1 -> "CO"
              [] rank = n - 2 -> "HJ"
              [] rank = 3 -> "UTG"
              [] rank = 4 -> IF n >= 8 THEN "UTG+1" ELSE "MP"
              [] rank = 5 -> IF n >= 9 THEN "MP" ELSE "MP+1"
              [] rank = 6 -> "MP+1"
              [] OTHER -> "Pos " \o ToString(rank)

\* get_profit_loss_by_position: df.groupby('position')['net_profit'].sum()
get_profit_loss_by_position(P, bare) ==
    LET df == pnl_rows(P, bare)
        position(r) == map_pos(r.pos_rank, r.num_players)
    IN {[position |-> pos,
         net_profit |-> LET g == {r \in df : position(r) = pos}
                        IN SumF([r \in g |-> r.net_profit], g)] :
            pos \in {position(r) : r \in df}}

\* player_pnl of get_pnl_by_hand
player_pnl(P) ==
    {[hand_id |-> pi.hand_id,
      net_profit |->
          Coalesce({r.total : r \in {x \in player_collected(P) : x.hand_id = pi.hand_id}})
          + Coalesce({r.total : r \in {x \in player_returned(P) : x.hand_id = pi.hand_id}})
          - pi.invested] :
        pi \in player_investment(P)}

\* get_net_pnl_all_players: player_street_investment over all players,
\* GROUP BY hand_id, player_id, stage
all_street_investment ==
    LET rows == {e \in Events : e.action \in WagerActions}
        group(h, p, st) == {e \in rows : e.hand_id = h /\ e.player_id = p /\ e.stage = st}
    IN {[hand_id |-> g[1], player_id |-> g[2], stage |-> g[3],
         street_max |-> StreetMax(group(g[1], g[2], g[3]))] :
            g \in {<<e.hand_id, e.player_id, e.stage>> : e \in rows}}

\* player_total_investment: SUM(street_max) GROUP BY player_id
player_total_investment ==
    {[player_id |-> p,
      total |-> LET g == {r \in all_street_investment : r.player_id = p}
                IN SumF([r \in g |-> r.street_max], g)] :
        p \in {r.player_id : r \in all_street_investment}}

\* player_total_returned and player_total_collected
player_total(act) ==
    LET rows == {e \in Events : e.action = act} IN
    {[player_id |-> p,
      total |-> LET g == {e \in rows : e.player_id = p}
                IN SumF([e \in g |-> e.amount], g)] :
        p \in {e.player_id : e \in rows}}

\* get_net_pnl_all_players: one row for each player_id of the players table
\* (top_names with rn = 1)
get_net_pnl_all_players ==
    {[player_id |-> p,
      total_net_pnl |->
          Coalesce({r.total : r \in {x \in player_total("collect") : x.player_id = p}})
          + Coalesce({r.total : r \in {x \in player_total("returned") : x.player_id = p}})
          - Coalesce({r.total : r \in {x \in player_total_investment : x.player_id = p}})] :
        p \in {r.player_id : r \in db.players}}

(***************************************************************************)
(* get_priors.                                                             *)
(***************************************************************************)
\* action LIKE 'raise%', over the actions the tables and queries name
LikeRaise(a) == a \in {"raise", "raise_to_amount"}

\* a VPIP filter that lets the blinds through
VpipActionsWithBlinds == {"call", "raise", "raise_to_amount", "post_sb", "post_bb"}

\* action IN ('call', 'raise', 'raise_to_amount') AND NOT action IN ('post_sb', 'post_bb')
VpipActions == {"call", "raise", "raise_to_amount"} \ {"post_sb", "post_bb"}

\* COUNT(DISTINCT hand_id) ... GROUP BY player_id
CountHands(rows) ==
    {[player_id |-> p, hands |-> Cardinality({e.hand_id : e \in {x \in rows : x.player_id = p}})] :
        p \in {e.player_id : e \in rows}}

player_hands == CountHands(Events)

\* a VPIP count of events instead of distinct hands
vpip_events ==
    LET rows == {e \in Events : e.stage = "Preflop" /\ e.action \in VpipActions}
    IN {[player_id |-> p, hands |-> Cardinality({e \in rows : e.player_id = p})] :
           p \in {e.player_id : e \in rows}}

vpip_hands == CountHands({e \in Events : e.stage = "Preflop" /\ e.action \in VpipActions})

pfr_hands == CountHands({e \in Events : e.stage = "Preflop" /\ LikeRaise(e.action)})

\* a 3-bet count that pairs a raise with any other raise of the hand
three_bet_hands_any_order ==
    CountHands({e1 \in Events :
        /\ e1.stage = "Preflop" /\ LikeRaise(e1.action)
        /\ \E e2 \in Events :
              /\ e2.hand_id = e1.hand_id
              /\ e2.stage = "Preflop" /\ LikeRaise(e2.action)
              /\ e1.id # e2.id})

\* e1 JOIN e2 ON the same hand, e2 a Preflop raise, e1.id > e2.id
three_bet_hands ==
    CountHands({e1 \in Events :
        /\ e1.stage = "Preflop" /\ LikeRaise(e1.action)
        /\ \E e2 \in Events :
              /\ e2.hand_id = e1.hand_id
              /\ e2.stage = "Preflop" /\ LikeRaise(e2.action)
              /\ e1.id > e2.id})

\* ROUND(CAST(n AS FLOAT) / total * 100, 2), in hundredths of a percent
RoundPct(n, total) == (2 * 10000 * n + total) \div (2 * total)

\* the rows of get_priors (display_name apart)
get_priors ==
    {LET v == Coalesce({r.hands : r \in {x \in vpip_hands : x.player_id = ph.player_id}})
         p == Coalesce({r.hands : r \in {x \in pfr_hands : x.player_id = ph.player_id}})
         t == Coalesce({r.hands : r \in {x \in three_bet_hands : x.player_id = ph.player_id}})
     IN [player_id |-> ph.player_id,
         total_hands |-> ph.hands,
         vpip_hands |-> v,
         pfr_hands |-> p,
         three_bet_hands |-> t,
         vpip_pct |-> RoundPct(v, ph.hands),
         pfr_pct |-> RoundPct(p, ph.hands),
         three_bet_pct |-> RoundPct(t, ph.hands)] :
        ph \in player_hands}

(***************************************************************************)
(* get_positional_stats.  Its positions and hand_counts are the text of    *)
(* those of get_profit_loss_by_position.                                   *)
(***************************************************************************)
\* round(x, 2) of Python and pandas for x = 100 * n / total, in hundredths of
\* a percent: to the nearest, a tie to the even one
PyRoundPct(n, total) ==
    LET q == (10000 * n) \div total
        twice == 2 * ((10000 * n) % total)
    IN IF twice > total \/ (twice = total /\ q % 2 = 1) THEN q + 1 ELSE q

\* a player_actions that reads the events of every street
player_actions_any_street(P) ==
    LET rows == {e \in Events : e.player_id = P}
    IN {[hand_id |-> h,
         vpip_flag |-> IF \E e \in rows : e.hand_id = h /\ e.action \in VpipActions
                       THEN 1 ELSE 0,
         pfr_flag |-> IF \E e \in rows : e.hand_id = h /\ LikeRaise(e.action)
                      THEN 1 ELSE 0] :
            h \in {e.hand_id : e \in rows}}

\* player_actions: the flags of the Preflop events of P, per hand
player_actions(P) ==
    LET rows == {e \in Events : e.player_id = P /\ e.stage = "Preflop"}
    IN {[hand_id |-> h,
         vpip_flag |-> IF \E e \in rows : e.hand_id = h /\ e.action \in VpipActions
                       THEN 1 ELSE 0,
         pfr_flag |-> IF \E e \in rows : e.hand_id = h /\ LikeRaise(e.action)
                      THEN 1 ELSE 0] :
            h \in {e.hand_id : e \in rows}}

\* three_bet: the hands in which a Preflop raise of P follows a Preflop raise
three_bet(P) ==
    {[hand_id |-> e1.hand_id, three_bet_flag |-> 1] :
        e1 \in {x \in Events :
            /\ x.player_id = P /\ x.stage = "Preflop" /\ LikeRaise(x.action)
            /\ \E e2 \in Events :
                  /\ e2.hand_id = x.hand_id
                  /\ e2.stage = "Preflop" /\ LikeRaise(e2.action)
                  /\ x.id > e2.id}}

\* the joined rows of the query, one for each positions row of P
positional_joined(P, bare) ==
    {[hand_id |-> pos.hand_id,
      pos_rank |-> {pos.pos_rank},
      num_players |-> {hc.num_players : hc \in {x \in hand_counts : x.hand_id = pos.hand_id}},
      vpip_flag |-> Coalesce({r.vpip_flag : r \in {x \in player_actions(P) : x.hand_id = pos.hand_id}}),
      pfr_flag |-> Coalesce({r.pfr_flag : r \in {x \in player_actions(P) : x.hand_id = pos.hand_id}}),
      three_bet_flag |-> Coalesce({r.three_bet_flag : r \in {x \in three_bet(P) : x.hand_id = pos.hand_id}})] :
        pos \in {x \in positions(bare) : x.player_id = P}}

\* GROUP BY pos.pos_rank, hc.num_players
positional_rows(P, bare) ==
    LET j == positional_joined(P, bare)
    IN {LET g == {r \in j : r.pos_rank = k[1] /\ r.num_players = k[2]}
        IN [pos_rank |-> k[1], num_players |-> k[2],
            total_hands |-> Cardinality(g),
            vpip_hands |-> SumF([r \in g |-> r.vpip_flag], g),
            pfr_hands |-> SumF([r \in g |-> r.pfr_flag], g),
            three_bet_hands |-> SumF([r \in g |-> r.three_bet_flag], g)] :
          k \in {<<r.pos_rank, r.num_players>> : r \in j}}

\* a copy of map_pos that takes the count for the rank
map_pos_swapped(rank_col, n_col) == map_pos(n_col, rank_col)

\* map_pos of get_positional_stats
map_pos_positional(rank_col, n_col) ==
    IF rank_col = {} \/ n_col = {} THEN "Unknown"
    ELSE LET rank == CHOOSE r \in rank_col : TRUE
             n == CHOOSE m \in n_col : TRUE
         IN IF n = 2
            THEN (IF rank = 1 THEN "BTN/SB"
                  ELSE IF rank = 2 THEN "BB"
                  ELSE "Pos " \o ToString(rank))
            ELSE IF rank = 1 THEN "SB"
            ELSE IF rank = 2 THEN "BB"
            ELSE IF rank = n THEN "BTN"
            ELSE IF rank = n - 1 THEN "CO"
            ELSE IF rank = n - 2 THEN "HJ"
            ELSE IF rank = 3 THEN "UTG"
            ELSE IF rank = 4 THEN (IF n >= 8 THEN "UTG+1" ELSE "MP")
            ELSE IF rank = 5 THEN (IF n >= 9 THEN "MP" ELSE "MP+1")
            ELSE IF rank = 6 THEN "MP+1"
            ELSE "Pos " \o ToString(rank)

\* get_positional_stats: groupby('position') with sums, then the percentages
get_positional_stats(P, bare) ==
    LET df == positional_rows(P, bare)
        position(r) == map_pos_positional(r.pos_rank, r.num_players)
    IN {LET g == {r \in df : position(r) = pos}
            total == SumF([r \in g |-> r.total_hands], g)
            v == SumF([r \in g |-> r.vpip_hands], g)
            pf == SumF([r \in g |-> r.pfr_hands], g)
            tb == SumF([r \in g |-> r.three_bet_hands], g)
        IN [position |-> pos, total_hands |-> total, vpip_hands |-> v,
            pfr_hands |-> pf, three_bet_hands |-> tb,
            vpip_pct |-> PyRoundPct(v, total),
            pfr_pct |-> PyRoundPct(pf, total),
            three_bet_pct |-> PyRoundPct(tb, total)] :
          pos \in {position(r) : r \in df}}

(***************************************************************************)
(* get_bet_sizing_frequencies.  pct_of_pot is the pair <<amount,           *)
(* pot_size>> of a row with pot_size > 0.                                  *)
(***************************************************************************)
BetStages == {"Flop", "Turn", "River"}
BetActions == {"bet", "raise", "raise_to_amount"}

\* the rows of the query
bet_rows ==
    {e \in Events : e.stage \in BetStages /\ e.action \in BetActions /\ e.pot_size > 0}

\* a categorize_bet whose Small bucket takes 0.33 itself
categorize_bet_closed(pct) ==
    IF 100 * pct[1] <= 33 * pct[2] THEN "Small (<33%)"
    ELSE IF 100 * pct[1] <= 66 * pct[2] THEN "Medium (33-66%)"
    ELSE "Large (>66%)"

\* pct < 0.33, pct <= 0.66, else
categorize_bet(pct) ==
    IF 100 * pct[1] < 33 * pct[2] THEN "Small (<33%)"
    ELSE IF 100 * pct[1] <= 66 * pct[2] THEN "Medium (33-66%)"
    ELSE "Large (>66%)"

bet_size_category(e) == categorize_bet(<<e.amount, e.pot_size>>)

\* groupby(['player_id', 'bet_size_category']).size().unstack(fill_value=0):
\* a row for each player of the rows, a column for each category of the rows
get_bet_sizing_frequencies ==
    LET df == bet_rows
        columns == {bet_size_category(e) : e \in df}
    IN {[player_id |-> p,
         counts |-> [c \in columns |->
                        Cardinality({e \in df : e.player_id = p /\ bet_size_category(e) = c})]] :
           p \in {e.player_id : e \in df}}

(***************************************************************************)
(* top_names, the display name of get_priors, get_net_pnl_all_players and  *)
(* get_exploit_targets: ROW_NUMBER() over players GROUP BY player_id,      *)
(* player_name, partitioned by player_id and ordered by the row count of   *)
(* the group, descending.  Groups of equal row count are numbered in an    *)
(* order the query does not name; names                                    *)
(* gives, for each player_id, the name that got rn = 1.                    *)
(***************************************************************************)
\* the row count of the group (player_id, player_name)
NameCount(pid, pname) ==
    Cardinality({r \in db.players : r.player_id = pid /\ r.player_name = pname})

\* the names that can get rn = 1: those of the largest the row count
FirstNames(pid) ==
    {r.player_name : r \in {x \in db.players :
        /\ x.player_id = pid
        /\ \A y \in db.players :
              y.player_id = pid => NameCount(pid, y.player_name) <= NameCount(pid, x.player_name)}}

RECURSIVE NameReads(_)
NameReads(ids) ==
    IF ids = {} THEN {[p \in {} |-> ""]}
    ELSE LET p == CHOOSE q \in ids : TRUE IN
         {f @@ (p :> n) : f \in NameReads(ids \ {p}), n \in FirstNames(p)}

\* the rows of top_names with rn = 1
top_names(names) ==
    {[player_id |-> p, display_name |-> names[p]] : p \in DOMAIN names}

\* LEFT JOIN top_names tn ON ... AND tn.rn = 1: the display names joined to
\* player_id p
DisplayOf(p, names) == {tn.display_name : tn \in {x \in top_names(names) : x.player_id = p}}

\* player_id and display_name of the rows of get_priors
get_priors_names(names) ==
    {[player_id |-> ph.player_id, display_name |-> DisplayOf(ph.player_id, names)] :
        ph \in player_hands}

\* player_id and display_name of the rows of get_net_pnl_all_players
get_net_pnl_names(names) ==
    {[player_id |-> tn.player_id, display_name |-> {tn.display_name}] :
        tn \in top_names(names)}

\* get_exploit_targets: the rows of player_priors of 50 hands or more, with
\* the display name
ExploitMinHands == 50
get_exploit_targets(names) ==
    {[row |-> pp, display_name |-> DisplayOf(pp.player_id, names)] :
        pp \in {r \in player_priors : r.total_hands >= ExploitMinHands}}

(***************************************************************************)
(* get_hero_leaks.  df is the frame of the rows of player_priors with the  *)
(* hero's player_id; percentages are in hundredths of a percent.  The      *)
(* result is None or the list of the leaks.                                *)
(***************************************************************************)
CallingStation == "Leaning towards Calling Station tendency."
FoldingTooMuch == "Might be folding too much on earlier streets."
LosingAtShowdown == "Losing at showdown, calling lightly or bluff-catching badly."
GivingUp == "Giving up too easily post-flop."
NoMajorLeaks == "Your core stats look solid! No major leaks detected based on TAG benchmarks."

\* a get_hero_leaks that warns of a calling station from 32 % on
get_hero_leaks_from_32(df) ==
    IF df = {} THEN <<None>>
    ELSE LET hero == CHOOSE r \in df : TRUE
             l1 == IF hero.wtsd_pct >= 3200 THEN <<CallingStation>>
                   ELSE IF hero.wtsd_pct < 2500 /\ hero.wtsd_pct > 0 THEN <<FoldingTooMuch>>
                   ELSE <<>>
             l2 == IF hero.wsd_pct < 5000 /\ hero.wsd_pct > 0
                   THEN Append(l1, LosingAtShowdown) ELSE l1
             l3 == IF hero.wwsf_pct < 4500 /\ hero.wwsf_pct > 0
                   THEN Append(l2, GivingUp) ELSE l2
         IN <<IF l3 = <<>> THEN <<NoMajorLeaks>> ELSE l3>>

get_hero_leaks(df) ==
    IF df = {} THEN <<None>>
    ELSE LET hero == CHOOSE r \in df : TRUE
             l1 == IF hero.wtsd_pct > 3200 THEN <<CallingStation>>
                   ELSE IF hero.wtsd_pct < 2500 /\ hero.wtsd_pct > 0 THEN <<FoldingTooMuch>>
                   ELSE <<>>
             l2 == IF hero.wsd_pct < 5000 /\ hero.wsd_pct > 0
                   THEN Append(l1, LosingAtShowdown) ELSE l1
             l3 == IF hero.wwsf_pct < 4500 /\ hero.wwsf_pct > 0
                   THEN Append(l2, GivingUp) ELSE l2
         IN <<IF l3 = <<>> THEN <<NoMajorLeaks>> ELSE l3>>

(***************************************************************************)
(* _normalize_hole_cards.  A text is the sequence of its characters and    *)
(* NoText stands for a None or NaN argument; the result is the returned    *)
(* text, or raised for the IndexError of c[0] or c[1] on a card shorter    *)
(* than two characters.                                                    *)
(***************************************************************************)
NoText == <<None>>
Unknown == <<"U", "n", "k", "n", "o", "w", "n">>

\* cards_str.split(',')
RECURSIVE SplitComma(_)
SplitComma(t) ==
    IF \A i \in DOMAIN t : t[i] # ","
    THEN <<t>>
    ELSE LET i == CHOOSE k \in DOMAIN t : t[k] = "," /\ \A j \in 1..(k - 1) : t[j] # ","
         IN <<SubSeq(t, 1, i - 1)>> \o SplitComma(SubSeq(t, i + 1, Len(t)))

rank_order ==
    [r \in {"A", "K", "Q", "J", "T", "9", "8", "7", "6", "5", "4", "3", "2"} |->
        CASE r = "A" -> 14 [] r = "K" -> 13 [] r = "Q" -> 12 [] r = "J" -> 11
          [] r = "T" -> 10 [] r = "9" -> 9 [] r = "8" -> 8 [] r = "7" -> 7
          [] r = "6" -> 6 [] r = "5" -> 5 [] r = "4" -> 4 [] r = "3" -> 3
          [] r = "2" -> 2]

Returns(t) == [raised |-> FALSE, value |-> t]
Raises == [raised |-> TRUE, value |-> <<>>]

\* a _normalize_hole_cards that keeps the cards in the order given
normalize_hole_cards_unordered(cards_str) ==
    IF cards_str = NoText \/ cards_str = <<>> THEN Returns(Unknown)
    ELSE LET cards == SplitComma(cards_str) IN
         IF Len(cards) # 2 THEN Returns(Unknown)
         ELSE IF \E i \in 1..2 : Len(cards[i]) < 2 THEN Raises
         ELSE LET r1 == cards[1][1]
                  r2 == cards[2][1]
              IN IF r1 \notin DOMAIN rank_order \/ r2 \notin DOMAIN rank_order
                 THEN Returns(cards_str)
                 ELSE IF r1 = r2 THEN Returns(<<r1, r2>>)
                 ELSE Returns(<<r1, r2, IF cards[1][2] = cards[2][2] THEN "s" ELSE "o">>)

normalize_hole_cards(cards_str) ==
    IF cards_str = NoText \/ cards_str = <<>> THEN Returns(Unknown)
    ELSE LET cards == SplitComma(cards_str) IN
         IF Len(cards) # 2 THEN Returns(Unknown)
         ELSE IF \E i \in 1..2 : Len(cards[i]) < 2 THEN Raises
         ELSE LET ranks == <<cards[1][1], cards[2][1]>>
                  suits == <<cards[1][2], cards[2][2]>>
              IN IF \E i \in 1..2 : ranks[i] \notin DOMAIN rank_order
                 THEN Returns(cards_str)
                 ELSE LET swap == rank_order[ranks[1]] < rank_order[ranks[2]]
                          r1 == IF swap THEN ranks[2] ELSE ranks[1]
                          r2 == IF swap THEN ranks[1] ELSE ranks[2]
                          s1 == IF swap THEN suits[2] ELSE suits[1]
                          s2 == IF swap THEN suits[1] ELSE suits[2]
                      IN IF r1 = r2 THEN Returns(<<r1, r2>>)
                         ELSE Returns(<<r1, r2, IF s1 = s2 THEN "s" ELSE "o">>)

\* get_pnl_by_hand: the query groups ph JOIN player_pnl by hole_cards, then
\* the frame is grouped by the normalized hole cards
get_pnl_by_hand(P) ==
    LET cards == {r \in db.player_hand_cards : r.player_id = P}
        on == {[hand_id |-> j[1].hand_id, hole_cards |-> j[1].hole_cards,
                net_profit |-> j[2].net_profit] :
                  j \in {x \in cards \X player_pnl(P) : x[1].hand_id = x[2].hand_id}}
        df == {[hole_cards |-> c,
                times_dealt |-> Cardinality({j \in on : j.hole_cards = c}),
                total_pnl |-> LET g == {j \in on : j.hole_cards = c}
                              IN SumF([j \in g |-> j.net_profit], g)] :
                  c \in {j.hole_cards : j \in on}}
        hand_combo(r) == normalize_hole_cards(r.hole_cards)
    IN IF df = {} THEN [raised |-> FALSE, rows |-> {}]
       ELSE IF \E r \in df : hand_combo(r).raised THEN [raised |-> TRUE, rows |-> {}]
       ELSE [raised |-> FALSE,
             rows |-> {[hand_combo |-> k,
                        times_dealt |-> LET g == {r \in df : hand_combo(r).value = k}
                                        IN SumF([r \in g |-> r.times_dealt], g),
                        total_pnl |-> LET g == {r \in df : hand_combo(r).value = k}
                                      IN SumF([r \in g |-> r.total_pnl], g)] :
                         k \in {hand_combo(r).value : r \in df}}]

(***************************************************************************)
(* calculate_and_store_player_priors.  Percentages and the average         *)
(* strength are kept in hundredths.                                        *)
(***************************************************************************)
\* round(num / den, 2) of Python, in hundredths: to the nearest, a tie to
\* the even one
PyRound2(num, den) ==
    LET q == (100 * num) \div den
        twice == 2 * ((100 * num) % den)
    IN IF twice > den \/ (twice = den /\ q % 2 = 1) THEN q + 1 ELSE q

DealActions == {"deal_flop", "deal_turn", "deal_river"}
RiverRaiseActions == {"raise", "bet", "raise_to_amount"}

\* SELECT DISTINCT player_id, hand_id FROM events WHERE ...
Pairs(rows) == {<<e.player_id, e.hand_id>> : e \in rows}

base_players == Pairs({e \in Events : e.player_id # Dealer /\ e.action \notin DealActions})
flops == {e.hand_id : e \in {x \in Events : x.action = "deal_flop"}}
folds == Pairs({e \in Events : e.action = "fold"})
preflop_folds == Pairs({e \in Events : e.stage = "Preflop" /\ e.action = "fold"})
saw_flop == {bp \in base_players : bp[2] \in flops /\ bp \notin preflop_folds}
\* survivors that keeps the players who folded
survivors_with_folders == base_players

survivors == {bp \in base_players : bp \notin folds}
showdown_hands ==
    {h \in {s[2] : s \in survivors} : Cardinality({s \in survivors : s[2] = h}) > 1}
showdowns == {s \in survivors : s[2] \in showdown_hands}
wins == Pairs({e \in Events : e.action = "collect"})
\* river_raises that takes the raises of every street
raises_any_street == Pairs({e \in Events : e.action \in RiverRaiseActions})

river_raises == Pairs({e \in Events : e.stage = "River" /\ e.action \in RiverRaiseActions})
river_bluffs == {rr \in river_raises : rr \in showdowns /\ rr \notin wins}
river_raise_opps == {rr \in river_raises : rr \in showdowns}

\* COUNT(DISTINCT x.hand_id) over the rows of player p that joined x
CountDistinct(p, joined) == Cardinality({x[2] : x \in {y \in joined : y[1] = p}})

\* the rows of adv_stats: GROUP BY bp.player_id
adv_stats ==
    {[player_id |-> p,
      flops_seen |-> CountDistinct(p, saw_flop),
      showdowns_seen |-> CountDistinct(p, showdowns),
      flops_won |-> CountDistinct(p, saw_flop \cap wins),
      showdowns_won |-> CountDistinct(p, showdowns \cap wins),
      river_bluffs |-> CountDistinct(p, base_players \cap river_bluffs),
      river_raise_opps |-> CountDistinct(p, base_players \cap river_raise_opps)] :
        p \in {bp[1] : bp \in base_players}}

\* the hand description of a payload: payload['hand'] names it, a payload
\* without one is searched as text and holds none of the words looked for
DescOf(payload) == IF "hand" \in DOMAIN payload THEN payload.hand ELSE ""

\* the words map_hand_strength looks for that a description contains
WordsIn(desc) ==
    CASE desc = "Straight Flush" -> {"straight flush", "flush", "straight"}
      [] desc = "Full House" -> {"full house"}
      [] desc = "Flush" -> {"flush"}
      [] desc = "Three of a Kind" -> {"three of a kind"}
      [] desc = "Two Pair" -> {"two pair", "pair"}
      [] desc = "Pair" -> {"pair"}
      [] OTHER -> {}

map_hand_strength(hand_desc) ==
    LET desc == WordsIn(hand_desc) IN
    IF hand_desc = "" THEN 0
    ELSE IF "royal flush" \in desc \/ "straight flush" \in desc THEN 8
    ELSE IF "four of a kind" \in desc \/ "quads" \in desc THEN 7
    ELSE IF "full house" \in desc THEN 6
    ELSE IF "flush" \in desc THEN 5
    ELSE IF "straight" \in desc THEN 4
    ELSE IF "three of a kind" \in desc \/ "set" \in desc \/ "trips" \in desc THEN 3
    ELSE IF "two pair" \in desc THEN 2
    ELSE IF "pair" \in desc THEN 1
    ELSE 0

\* player_strengths[pid] without its zeros, as the events that carry them
StrengthRows(pid) ==
    {e \in Events : /\ e.player_id = pid
                    /\ (e.action = "show" \/ e.stage = "Showdown")
                    /\ map_hand_strength(DescOf(e.raw_entry)) > 0}

avg_strength(pid) ==
    LET vals == StrengthRows(pid) IN
    IF vals = {} THEN 0
    ELSE PyRound2(SumF([e \in vals |-> map_hand_strength(DescOf(e.raw_entry))], vals),
                  Cardinality(vals))

TagMinHands == 10

\* a profile tag that asks for the 50 hands of the original requirement
profile_tag_fifty(hands, avg) ==
    IF hands >= 50
    THEN (IF avg <= 150 /\ avg > 0 THEN "Bluff-Heavy/Station"
          ELSE IF avg >= 300 THEN "Under-Bluffing/Nit"
          ELSE "Regular")
    ELSE "Unknown"

\* profile_tag of a player with that many hands and that average strength
profile_tag(hands, avg) ==
    IF hands >= TagMinHands
    THEN (IF avg <= 150 /\ avg > 0 THEN "Bluff-Heavy/Station"
          ELSE IF avg >= 300 THEN "Under-Bluffing/Nit"
          ELSE "Regular")
    ELSE "Unknown"

\* the row written for a row of base_stats
priors_row(row) ==
    LET adv == {a \in adv_stats : a.player_id = row.player_id}
        a == CHOOSE x \in adv : TRUE
        avg == avg_strength(row.player_id)
    IN [player_id |-> row.player_id,
        total_hands |-> row.total_hands,
        vpip_pct |-> row.vpip_pct,
        pfr_pct |-> row.pfr_pct,
        three_bet_pct |-> row.three_bet_pct,
        wtsd_pct |-> IF adv # {} /\ a.flops_seen > 0
                     THEN PyRoundPct(a.showdowns_seen, a.flops_seen) ELSE 0,
        wsd_pct |-> IF adv # {} /\ a.showdowns_seen > 0
                    THEN PyRoundPct(a.showdowns_won, a.showdowns_seen) ELSE 0,
        wwsf_pct |-> IF adv # {} /\ a.flops_seen > 0
                     THEN PyRoundPct(a.flops_won, a.flops_seen) ELSE 0,
        river_bluff_freq |-> IF adv # {} /\ a.river_raise_opps > 0
                             THEN PyRoundPct(a.river_bluffs, a.river_raise_opps) ELSE 0,
        avg_showdown_strength |-> avg,
        profile_tag |-> profile_tag(row.total_hands, avg)]

\* a store that adds the new total_hands to the stored one
StorePriorsAdding(t) ==
    {r \in t : \A b \in get_priors : b.player_id # r.player_id}
    \cup {[priors_row(b) EXCEPT !.total_hands =
                @ + SumF([r \in {x \in t : x.player_id = b.player_id} |-> r.total_hands],
                         {x \in t : x.player_id = b.player_id})] :
            b \in get_priors}

\* a store by INSERT OR IGNORE: the stored row of a player stands
StorePriorsIgnore(t) ==
    t \cup {priors_row(b) :
               b \in {x \in get_priors : \A r \in t : r.player_id # x.player_id}}

\* INSERT OR REPLACE INTO player_priors, for each row of base_stats
StorePriors(t) ==
    {r \in t : \A b \in get_priors : b.player_id # r.player_id}
    \cup {priors_row(b) : b \in get_priors}

\* calculate_and_store_player_priors, run while no parse_json is open; with
\* no row in base_stats it returns at once.  call keeps the table the run
\* found and whether the step before was a run too.
calculate_and_store_player_priors ==
    /\ pc \in {"loop", "done"}
    /\ player_priors' = IF get_priors = {} THEN player_priors
                        ELSE StorePriors(player_priors)
    /\ call' = [op |-> "calculate_and_store_player_priors",
                again |-> call.op = "calculate_and_store_player_priors",
                before |-> player_priors]
    /\ UNCHANGED <<dir, todo, pc, cur, content, db, tx, hand_id, is_cents, seat_to_id,
                   stage, pot_size, failed, processed_any, conn>>

(***************************************************************************)
(* calculate_and_store_player_priors step by step, for what a reader of    *)
(* the table can see while it runs.  The frames are read first; the loop   *)
(* then executes one INSERT OR REPLACE for each row of base_stats, the     *)
(* first of which opens a transaction on the connection, and one commit    *)
(* ends it.  An exception leaves the method with the transaction open: no  *)
(* handler rolls it back.                                                  *)
(***************************************************************************)
IngestVars == <<dir, todo, pc, cur, content, db, tx, hand_id, is_cents, seat_to_id,
                stage, pot_size, failed, processed_any>>

\* the table as the connection sees it
ViewOf(c, t) == IF c.view = <<>> THEN t ELSE c.view[1]

Replace(t, r) == {x \in t : x.player_id # r.player_id} \cup {r}

\* an INSERT OR REPLACE that is committed at once
InsertAutocommit(c, t, r) ==
    [conn |-> [c EXCEPT !.rows = @ \ {r}], table |-> Replace(t, r)]

\* cursor.execute(INSERT OR REPLACE ...): the row is written in the
\* transaction of the connection, the stored table stands
InsertPending(c, t, r) ==
    [conn |-> [c EXCEPT !.rows = @ \ {r}, !.view = <<Replace(ViewOf(c, t), r)>>],
     table |-> t]

\* base_stats, adv_stats and shows_df are read; an empty base_stats returns
priors_begin ==
    /\ pc \in {"loop", "done"}
    /\ conn.at = "idle"
    /\ LET rows == {priors_row(b) : b \in get_priors}
       IN conn' = IF rows = {} THEN conn
                  ELSE [conn EXCEPT !.at = "loop", !.rows = rows, !.all = rows]
    /\ call' = [op |-> "priors_begin"]
    /\ UNCHANGED player_priors
    /\ UNCHANGED IngestVars

\* one iteration of the loop over base_stats
priors_insert ==
    /\ conn.at = "loop"
    /\ \E r \in conn.rows :
          LET e == InsertPending(conn, player_priors, r)
          IN conn' = e.conn /\ player_priors' = e.table
    /\ call' = [op |-> "priors_insert"]
    /\ UNCHANGED IngestVars

\* self.conn.commit()
priors_commit ==
    /\ conn.at = "loop"
    /\ conn.rows = {}
    /\ player_priors' = ViewOf(conn, player_priors)
    /\ conn' = Closed
    /\ call' = [op |-> "priors_commit", before |-> player_priors]
    /\ UNCHANGED IngestVars

\* an exception in the loop or in the commit leaves the method; the
\* transaction stays open on the connection
priors_raise ==
    /\ conn.at = "loop"
    /\ conn' = [Closed EXCEPT !.view = conn.view]
    /\ call' = [op |-> "priors_raise"]
    /\ UNCHANGED player_priors
    /\ UNCHANGED IngestVars

\* the connection is closed with the object that held it (app.py makes one
\* for the run alone): an open transaction is rolled back
priors_close ==
    /\ conn.at = "idle"
    /\ conn.view # <<>>
    /\ conn' = Closed
    /\ call' = [op |-> "priors_close"]
    /\ UNCHANGED player_priors
    /\ UNCHANGED IngestVars

(***************************************************************************)
(* Inputs: the files a run may find.                                       *)
(***************************************************************************)
Files == {"f1", "f2"}
OneFile == {"f1"}

Payload(t, s, v, tn) == [type |-> t, seat |-> s, value |-> v, turn |-> tn, pot |-> NoField]
Raw(t, s, v, tn) == [at |-> 1500, payload |-> Payload(t, s, v, tn)]
NoAt(t, s, v, tn) == [at |-> NoField, payload |-> Payload(t, s, v, tn)]

Alice == [id |-> "p1", name |-> "Alice", seat |-> 1, hand |-> << <<"A", "s">>, <<"K", "s">> >>]
Al == [id |-> "p1", name |-> "Al", seat |-> 2, hand |-> << <<"K", "s">>, <<"A", "s">> >>]
Bob == [id |-> "p2", name |-> "Bob", seat |-> 2, hand |-> <<>>]
NoName == [id |-> "p2", name |-> Missing, seat |-> 2, hand |-> <<>>]

Hand(i, ps, c, ds, ms) ==
    [id |-> i, startedAt |-> ms, cents |-> c, dealerSeat |-> ds, players |-> ps]

\* Spec: whole runs over two files; the same hand id under two rosters, and
\* hands lacking a required field
SpecHands ==
    { Hand("h1", <<Alice, Bob>>, FALSE, 1, 2500),
      Hand("h1", <<Al>>, FALSE, 1, 3500),
      Hand("h2", <<Alice, NoName>>, FALSE, 1, 2500),
      Hand(Missing, <<Alice, Bob>>, FALSE, 1, 2500),
      Hand("h2", <<Alice, Bob>>, FALSE, 1, NoField) }

SpecRaws == { Raw(11, 1, NoField, 0), NoAt(11, 1, NoField, 0) }

\* SpecParse: one file, every type code; seat 1 is Alice's, seat 3 nobody's,
\* seat 0 stands for no seat
OtherCodes == {NoField, 1, 13, 15, 17}
MoneyCodes == {2, 3, 4, 5, 6, 7, 8, 14, 16, 10}

ParseHands ==
    { Hand("h1", <<Alice, Bob>>, FALSE, 1, 2500),
      Hand("h1", <<Alice, Bob>>, TRUE, 1, 2500) }

ParseRaws ==
    {Raw(t, 1, NoField, 0) : t \in {0, 11, 12} \cup OtherCodes}
    \cup {Raw(11, 3, NoField, 0), Raw(12, 0, NoField, 0), Raw(1, 0, NoField, 0),
          Raw(15, 3, NoField, 0)}
    \cup {Raw(t, 1, 300, 0) : t \in MoneyCodes}
    \cup {Raw(7, 3, 300, 0), Raw(16, 3, 300, 0), Raw(7, 1, NoField, 0),
          [at |-> 1500, payload |-> [Payload(10, 1, NoField, 0) EXCEPT !.pot = 500]]}
    \cup {Raw(9, 0, NoField, tn) : tn \in {NoField, 1, 2, 3, 4}}
    \cup {Raw(9, 1, NoField, 2)}

\* SpecMoney: the events the profit queries read, amounts in cents
MoneyHands ==
    { Hand("h1", <<Alice, Bob>>, TRUE, 1, 2500),
      Hand("h2", <<Alice, Bob>>, TRUE, 1, 3500) }

MoneyRaws ==
    { Raw(3, 1, 1, 0), Raw(8, 1, 1, 0), Raw(8, 1, 2, 0), Raw(16, 1, 1, 0),
      Raw(10, 1, 2, 0), Raw(7, 2, 1, 0), Raw(10, 2, 1, 0), Raw(9, 0, NoField, 1) }

\* SpecStats: the events the preflop statistics read
StatHands ==
    { Hand("h1", <<Alice, Bob>>, FALSE, 1, 2500),
      Hand("h2", <<Alice, Bob>>, FALSE, 1, 3500) }

StatRaws ==
    { Raw(2, 1, 1, 0), Raw(0, 1, NoField, 0), Raw(7, 1, 1, 0), Raw(8, 1, 2, 0),
      Raw(8, 2, 2, 0), Raw(9, 0, NoField, 1) }

InitIngest(F) ==
    /\ dir = F
    /\ todo = F
    /\ pc = "loop"
    /\ cur = None
    /\ content = [f \in F |-> <<>>]
    /\ db = EmptyDb
    /\ tx = EmptyDb
    /\ hand_id = None
    /\ is_cents = FALSE
    /\ seat_to_id = NoSeats
    /\ stage = "Preflop"
    /\ pot_size = 0
    /\ failed = {}
    /\ processed_any = FALSE
    /\ player_priors = {}
    /\ conn = Closed

InitWith(F) == InitIngest(F) /\ call = NoCall

Init == InitWith(Files)

Next ==
    \/ OpenFile
    \/ OpenFails
    \/ BeginHand(SpecHands, MaxHands)
    \/ ParseEvent(SpecRaws, MaxRaw)
    \/ EndHand
    \/ Commit
    \/ MoveFile
    \/ MoveFails
    \/ Return

Spec == Init /\ [][Next]_vars

InitParse == InitWith(OneFile)

NextParse ==
    \/ OpenFile
    \/ OpenFails
    \/ BeginHand(ParseHands, MaxParseHands)
    \/ ParseEvent(ParseRaws, MaxParseRaw)
    \/ EndHand
    \/ Commit
    \/ MoveFile
    \/ MoveFails
    \/ Return

SpecParse == InitParse /\ [][NextParse]_vars

InitMoney == InitWith(OneFile)

NextMoney ==
    \/ OpenFile
    \/ OpenFails
    \/ BeginHand(MoneyHands, MaxMoneyHands)
    \/ ParseEvent(MoneyRaws, MaxMoneyRaw)
    \/ EndHand
    \/ Commit
    \/ MoveFile
    \/ MoveFails
    \/ Return

SpecMoney == InitMoney /\ [][NextMoney]_vars

InitStats == InitWith(OneFile)

NextStats ==
    \/ OpenFile
    \/ OpenFails
    \/ BeginHand(StatHands, MaxStatHands)
    \/ ParseEvent(StatRaws, MaxStatRaw)
    \/ EndHand
    \/ Commit
    \/ MoveFile
    \/ MoveFails
    \/ Return

SpecStats == InitStats /\ [][NextStats]_vars

\* SpecShow: one file, then the priors; the events the post-flop statistics
\* read
ShowHands ==
    { Hand("h1", <<Alice, Bob>>, FALSE, 1, 2500) }

ShowRaws ==
    { Raw(9, 0, NoField, 1), Raw(9, 0, NoField, 3),
      Raw(0, 2, NoField, 0), Raw(11, 2, NoField, 0), Raw(8, 1, 1, 0), Raw(10, 1, 1, 0) }

InitShow == InitWith(OneFile)

NextShow ==
    \/ OpenFile
    \/ OpenFails
    \/ BeginHand(ShowHands, MaxShowHands)
    \/ ParseEvent(ShowRaws, MaxShowRaw)
    \/ EndHand
    \/ Commit
    \/ MoveFile
    \/ MoveFails
    \/ Return
    \/ calculate_and_store_player_priors

SpecShow == InitShow /\ [][NextShow]_vars

\* SpecBets: one file in cents; a call that makes a pot of 1.00, then bets
\* of 0.32, 0.33, 0.66 and 0.67
BetHands ==
    { Hand("h1", <<Alice, Bob>>, TRUE, 1, 2500),
      Hand("h2", <<Alice, Bob>>, TRUE, 1, 3500) }

BetRaws ==
    { Raw(7, 1, 100, 0), Raw(9, 0, NoField, 1), Raw(8, 1, 32, 0), Raw(8, 1, 33, 0),
      Raw(8, 2, 66, 0), Raw(8, 1, 67, 0), Raw(10, 1, 100, 0) }

InitBets == InitWith(OneFile)

NextBets ==
    \/ OpenFile
    \/ OpenFails
    \/ BeginHand(BetHands, MaxBetHands)
    \/ ParseEvent(BetRaws, MaxBetRaw)
    \/ EndHand
    \/ Commit
    \/ MoveFile
    \/ MoveFails
    \/ Return

SpecBets == InitBets /\ [][NextBets]_vars

\* SpecCards: one file; p1 is dealt As Ks, Ks As or Jd Th, and calls,
\* collects or checks
AliceKA == [id |-> "p1", name |-> "Alice", seat |-> 1, hand |-> << <<"K", "s">>, <<"A", "s">> >>]
AliceJT == [id |-> "p1", name |-> "Alice", seat |-> 1, hand |-> << <<"J", "d">>, <<"T", "h">> >>]

CardHands ==
    { Hand("h1", <<Alice, Bob>>, TRUE, 1, 2500),
      Hand("h2", <<AliceKA, Bob>>, TRUE, 1, 3500),
      Hand("h3", <<AliceJT, Bob>>, TRUE, 1, 4500) }

CardRaws ==
    { Raw(7, 1, 2, 0), Raw(10, 1, 3, 0), Raw(0, 1, NoField, 0) }

InitCards == InitWith(OneFile)

NextCards ==
    \/ OpenFile
    \/ OpenFails
    \/ BeginHand(CardHands, MaxCardHands)
    \/ ParseEvent(CardRaws, MaxCardRaw)
    \/ EndHand
    \/ Commit
    \/ MoveFile
    \/ MoveFails
    \/ Return

SpecCards == InitCards /\ [][NextCards]_vars

\* SpecNames: one file of up to three hands in which p1 is Alice or Al
AlSeat1 == [id |-> "p1", name |-> "Al", seat |-> 1, hand |-> <<>>]

NameHands ==
    { Hand("h1", <<Alice, Bob>>, FALSE, 1, 2500),
      Hand("h2", <<Alice, Bob>>, FALSE, 1, 3500),
      Hand("h3", <<AlSeat1, Bob>>, FALSE, 1, 4500) }

NameRaws == { Raw(0, 1, NoField, 0) }

InitNames == InitWith(OneFile)

NextNames ==
    \/ OpenFile
    \/ OpenFails
    \/ BeginHand(NameHands, MaxNameHands)
    \/ ParseEvent(NameRaws, MaxNameRaw)
    \/ EndHand
    \/ Commit
    \/ MoveFile
    \/ MoveFails
    \/ Return

SpecNames == InitNames /\ [][NextNames]_vars

\* SpecAtomic: two files whose ingestion succeeds, and the priors run step
\* by step.  Ingestion and the run do not overlap (app.py waits for the
\* ingestion before it starts the run), and ingestion does not write while
\* the connection holds an open transaction.
\* the hands of f1 and the hands of f2
AtomicHands ==
    [f1 |-> { Hand("h1", <<Alice, Bob>>, FALSE, 1, 2500) },
     f2 |-> { Hand("h2", <<Alice, Bob>>, FALSE, 1, 3500) }]

AtomicRaws == { Raw(0, 1, NoField, 0), Raw(0, 2, NoField, 0) }

InitAtomic == InitWith(Files)

NextAtomic ==
    \/ conn = Closed /\ OpenFile
    \/ conn = Closed /\ BeginHand(AtomicHands[cur], MaxAtomicHands)
    \/ conn = Closed /\ ParseEvent(AtomicRaws, MaxAtomicRaw)
    \/ conn = Closed /\ EndHand
    \/ conn = Closed /\ Commit
    \/ conn = Closed /\ MoveFile
    \/ conn = Closed /\ Return
    \/ priors_begin
    \/ priors_insert
    \/ priors_commit
    \/ priors_raise
    \/ priors_close

SpecAtomic == InitAtomic /\ [][NextAtomic]_vars

\* SpecRetry: a run over two files in which a move may fail and an event
\* may lack its time, then later runs over the files that stayed
RetryHands == { Hand("h1", <<Alice, Bob>>, FALSE, 1, 2500) }

RetryRaws == { Raw(10, 1, 300, 0), NoAt(11, 2, NoField, 0) }

InitRetry == InitWith(Files)

NextRetry ==
    \/ OpenFile
    \/ BeginHand(RetryHands, MaxRetryHands)
    \/ ParseEvent(RetryRaws, MaxRetryRaw)
    \/ EndHand
    \/ Commit
    \/ MoveFile
    \/ MoveFails
    \/ Return
    \/ Rerun(MaxRetryRows)
    \/ RetryFile(TRUE)
    \/ RetryFile(FALSE)
    \/ RerunReturn

SpecRetry == InitRetry /\ [][NextRetry]_vars

\* SpecPct: one file whose first hand is h1, with a flop, and whose later
\* hands are h2, without one; nobody folds; the priors run after the file
PctHands ==
    [first |-> { Hand("h1", <<Alice, Bob>>, FALSE, 1, 2500) },
     later |-> { Hand("h2", <<Alice, Bob>>, FALSE, 1, 3500) }]

PctRaws ==
    [h1 |-> { Raw(9, 0, NoField, 1), Raw(0, 1, NoField, 0), Raw(0, 2, NoField, 0) },
     h2 |-> { Raw(0, 1, NoField, 0), Raw(0, 2, NoField, 0) }]

InitPct == InitWith(OneFile)

NextPct ==
    \/ OpenFile
    \/ pc = "hands" /\ content[cur] = <<>> /\ BeginHand(PctHands.first, MaxPctHands)
    \/ pc = "hands" /\ content[cur] # <<>> /\ BeginHand(PctHands.later, MaxPctHands)
    \/ hand_id = "h1" /\ ParseEvent(PctRaws.h1, MaxPctRaw)
    \/ hand_id = "h2" /\ ParseEvent(PctRaws.h2, MaxPctRaw)
    \/ EndHand
    \/ Commit
    \/ MoveFile
    \/ Return
    \/ pc = "done" /\ calculate_and_store_player_priors

SpecPct == InitPct /\ [][NextPct]_vars

\* SpecPriors: two files, the priors run between and after them; a show
\* that names the hand
Show(s, name) == [at |-> 1500, payload |-> Payload(12, s, NoField, 0) @@ [hand |-> name]]

PriorsHands ==
    { Hand("h1", <<Alice, Bob>>, FALSE, 1, 2500),
      Hand("h2", <<Alice, Bob>>, FALSE, 1, 3500) }

PriorsRaws ==
    { Raw(8, 1, 1, 0), Show(2, "Pair") }

InitPriors == InitWith(Files)

NextPriors ==
    \/ OpenFile
    \/ OpenFails
    \/ BeginHand(PriorsHands, MaxPriorsHands)
    \/ ParseEvent(PriorsRaws, MaxPriorsRaw)
    \/ EndHand
    \/ Commit
    \/ MoveFile
    \/ MoveFails
    \/ Return
    \/ calculate_and_store_player_priors

SpecPriors == InitPriors /\ [][NextPriors]_vars

(***************************************************************************)
(* SpecPure: the pure helpers of analytics.py, called on arguments drawn   *)
(* at the start.                                                           *)
(***************************************************************************)
Nullable(S) == {{}} \cup {{x} : x \in S}

MapPosCalls ==
    {[op |-> "map_pos", rank |-> r, n |-> n, done |-> FALSE, out |-> <<>>] :
        r \in Nullable(0..MaxPosRank), n \in Nullable(0..MaxPosPlayers)}

\* row['position'] = map_pos(row), by either copy
Call_map_pos ==
    /\ call.op = "map_pos" /\ ~call.done
    /\ call' = [call EXCEPT !.done = TRUE,
                            !.out = <<map_pos(call.rank, call.n),
                                      map_pos_positional(call.rank, call.n)>>]
    /\ UNCHANGED <<dir, todo, pc, cur, content, db, tx, hand_id, is_cents, seat_to_id,
                   stage, pot_size, failed, processed_any, player_priors, conn>>

\* average strengths, in hundredths, around the two thresholds
TagAverages == {0, 1, 100, 149, 150, 151, 299, 300, 301, 800}

TagCalls ==
    {[op |-> "profile_tag", hands |-> h, avg |-> a, done |-> FALSE, out |-> <<>>] :
        h \in 0..MaxTagHands, a \in TagAverages}

\* the profile tag of one iteration of the loop over base_stats
Call_profile_tag ==
    /\ call.op = "profile_tag" /\ ~call.done
    /\ call' = [call EXCEPT !.done = TRUE,
                            !.out = <<profile_tag(call.hands, call.avg)>>]
    /\ UNCHANGED <<dir, todo, pc, cur, content, db, tx, hand_id, is_cents, seat_to_id,
                   stage, pot_size, failed, processed_any, player_priors, conn>>

\* texts given to _normalize_hole_cards: two cards joined by a comma, the
\* texts it returns, and texts that are not two cards
CardRanks == {"A", "K", "J", "T", "2"}
CardSuits == {"s", "h", "d"}
Cards == {<<r, u>> : r \in CardRanks, u \in CardSuits}

HoleCardTexts ==
    {c1 \o <<",">> \o c2 : c1, c2 \in Cards}
      \cup {<<"A", "K", "s">>, <<"J", "T", "o">>, <<"A", "A">>, Unknown}
      \cup {NoText, <<>>, <<"A", "s">>, <<"A", "s", ",", "K", "s", ",", "2", "d">>,
            <<"1", "0", "h", ",", "K", "s">>, <<"A", "s", ",", "X", "d">>,
            <<"A", ",", "K">>, <<"A", "s", ",">>}

NormalizeCalls ==
    {[op |-> "_normalize_hole_cards", cards_str |-> t, done |-> FALSE, out |-> <<>>] :
        t \in HoleCardTexts}

Call_normalize_hole_cards ==
    /\ call.op = "_normalize_hole_cards" /\ ~call.done
    /\ call' = [call EXCEPT !.done = TRUE,
                            !.out = <<normalize_hole_cards(call.cards_str)>>]
    /\ UNCHANGED <<dir, todo, pc, cur, content, db, tx, hand_id, is_cents, seat_to_id,
                   stage, pot_size, failed, processed_any, player_priors, conn>>

\* stored rows of the hero around the thresholds of get_hero_leaks, and no
\* row
HeroRows ==
    {[player_id |-> "p1", wtsd_pct |-> a, wsd_pct |-> b, wwsf_pct |-> c] :
        a \in {0, 1, 2499, 2500, 3200, 3201, 20000},
        b \in {0, 1, 4999, 5000, 10000},
        c \in {0, 1, 4499, 4500, 10000}}

HeroCalls ==
    {[op |-> "get_hero_leaks", df |-> d, done |-> FALSE, out |-> <<>>] :
        d \in Nullable(HeroRows)}

Call_get_hero_leaks ==
    /\ call.op = "get_hero_leaks" /\ ~call.done
    /\ call' = [call EXCEPT !.done = TRUE, !.out = get_hero_leaks(call.df)]
    /\ UNCHANGED <<dir, todo, pc, cur, content, db, tx, hand_id, is_cents, seat_to_id,
                   stage, pot_size, failed, processed_any, player_priors, conn>>

InitPure ==
    InitIngest(OneFile) /\ call \in MapPosCalls \cup TagCalls \cup NormalizeCalls \cup HeroCalls

NextPure ==
    \/ Call_map_pos
    \/ Call_profile_tag
    \/ Call_normalize_hole_cards
    \/ Call_get_hero_leaks

SpecPure == InitPure /\ [][NextPure]_vars

(***************************************************************************)
(* Properties of parse_json on one hand (SpecParse).                       *)
(***************************************************************************)
StreetRank(st) == CHOOSE i \in DOMAIN Streets : Streets[i] = st

\* the hand being read and the raw event read last
LastHand == content[cur][Len(content[cur])]
LastRaw == LastHand.events[Len(LastHand.events)]
LastRow == tx.events[Len(tx.events)]

\* one iteration of the events loop that did not raise
ParseStep == pc = "events" /\ pc' = "events" /\ content' # content

\* the hand id was read once in the run
IngestedOnce(hid) ==
    Cardinality(UNION {{<<f, i>> : i \in {j \in DOMAIN content[f] : content[f][j].hdr.id = hid}} :
                          f \in DOMAIN content}) = 1

\* C3: the stages of the stored events of one hand, read in id order, never
\* decrease in the order Preflop < Flop < Turn < River < Showdown.
C3_StageNeverDecreases ==
    \A i, j \in DOMAIN db.events :
        (/\ i < j
         /\ db.events[i].hand_id = db.events[j].hand_id
         /\ IngestedOnce(db.events[i].hand_id))
        => StreetRank(db.events[i].stage) <= StreetRank(db.events[j].stage)

RECURSIVE SumValues(_, _, _)
SumValues(evs, codes, cents) ==
    IF evs = <<>> THEN 0
    ELSE (IF Head(evs).payload.type \in codes
          THEN get_val(PayloadValue(Head(evs).payload), cents) ELSE 0)
         + SumValues(Tail(evs), codes, cents)

\* C4: the pot_size of a stored event is the sum of the amounts of
\* all wagering events read so far in the hand (posts, calls and bets/raises),
\* this one included, minus the returned amounts.
C4_PotCountsRaises ==
    [][(ParseStep /\ tx' # tx) =>
        LastRow'.pot_size =
            SumValues(LastHand'.events, {2, 3, 4, 5, 6, 14, 7, 8}, is_cents)
            - SumValues(LastHand'.events, {16}, is_cents)]_vars

\* What parse_json stores instead: the pot_size of a stored event is the sum
\* of the amounts of all blind/ante posts and calls read so far in the hand,
\* stored or dropped, this event included, minus the returned amounts read so
\* far; a bet/raise and a collect leave it unchanged.
C4_PotIsPostsAndCalls ==
    [][ParseStep =>
        /\ (tx' # tx =>
              /\ tx'.events = Append(tx.events, LastRow')
              /\ LastRow'.pot_size =
                    SumValues(LastHand'.events, {2, 3, 4, 5, 6, 14, 7}, is_cents)
                    - SumValues(LastHand'.events, {16}, is_cents))
        /\ (LastRaw'.payload.type \in {8, 10} => pot_size' = pot_size)]_vars

\* a raise stored after a post: its pot_size is the post alone
C4_Witness ==
    /\ pc = "events"
    /\ Len(LastHand.events) = 2
    /\ LastHand.events[1].payload.type = 3
    /\ Len(tx.events) = 2
    /\ LastRow.action = "raise"
    /\ LastRow.amount > 0
    /\ LastRow.pot_size = tx.events[1].amount

\* the table of type codes of the claim
ClaimAction(payload) ==
    CASE payload.type = 3 -> "post_sb"
      [] payload.type = 2 -> "post_bb"
      [] payload.type \in {4, 5, 6, 14} -> "post_other"
      [] payload.type = 11 -> "fold"
      [] payload.type = 0 -> "check"
      [] payload.type = 7 -> "call"
      [] payload.type = 8 -> "raise"
      [] payload.type = 16 -> "returned"
      [] payload.type = 10 -> "collect"
      [] payload.type = 12 -> "show"
      [] payload.type = 9 /\ payload.turn = 1 -> "deal_flop"
      [] payload.type = 9 /\ payload.turn = 2 -> "deal_turn"
      [] payload.type = 9 /\ payload.turn = 3 -> "deal_river"
      [] OTHER -> "other"

ClaimStreet(payload) ==
    CASE payload.type \in {10, 12} -> "Showdown"
      [] payload.type = 9 /\ payload.turn = 1 -> "Flop"
      [] payload.type = 9 /\ payload.turn = 2 -> "Turn"
      [] payload.type = 9 /\ payload.turn = 3 -> "River"

\* C5: each type code is stored under the one action of the table, a board
\* deal under the player 'Dealer'; the street changes only on codes 9, 10 and
\* 12, and then to the street the code names.
C5_CodeToAction ==
    [][ParseStep =>
        LET p == LastRaw'.payload IN
        /\ (tx' # tx =>
              /\ LastRow'.action = ClaimAction(p)
              /\ LastRow'.raw_entry = p
              /\ (p.type = 9 => LastRow'.player_id = "Dealer"))
        /\ (stage' # stage =>
              /\ p.type \in {9, 10, 12}
              /\ stage' = ClaimStreet(p))
        /\ ((p.type \in {10, 12} \/ (p.type = 9 /\ p.turn \in 1..3)) =>
              stage' = ClaimStreet(p))]_vars

\* a straddle (code 14) stored as post_other after the turn card
C5_Witness ==
    /\ pc = "events"
    /\ Len(tx.events) = 2
    /\ tx.events[1].action = "deal_turn"
    /\ tx.events[1].player_id = "Dealer"
    /\ LastRow.raw_entry.type = 14
    /\ LastRow.action = "post_other"
    /\ LastRow.stage = "Turn"

\* the claim's reading of "action and player resolve"
ClaimResolves(payload, seats) ==
    IF payload.type = 9 THEN payload.turn \in 1..3
    ELSE payload.seat # 0 /\ payload.seat \in DOMAIN seats

\* C6: a raw event is stored exactly when its action and its player resolve;
\* an event that does not is dropped without an error, and the loop goes on to
\* the events after it.
C6_StoredIffResolved ==
    [][(pc = "events" /\ content' # content /\ LastRaw'.at # NoField) =>
        /\ pc' = "events"
        /\ failed' = failed
        /\ IF ClaimResolves(LastRaw'.payload, seat_to_id)
           THEN /\ Len(tx'.events) = Len(tx.events) + 1
                /\ LastRow'.raw_entry = LastRaw'.payload
                /\ LastRow'.hand_id = hand_id
           ELSE tx' = tx]_vars

\* an event of a seat nobody holds was dropped and the fold after it stored
C6_Witness ==
    /\ pc = "events"
    /\ Len(LastHand.events) = 2
    /\ LastHand.events[1].payload.seat = 3
    /\ LastHand.events[2].payload.type = 11
    /\ Len(tx.events) = 1
    /\ LastRow.action = "fold"
    /\ cur \notin failed

(***************************************************************************)
(* Properties of a run of process_directory (Spec).                        *)
(***************************************************************************)
WellFormed(h) ==
    /\ HeaderOk(h.hdr)
    /\ \A i \in DOMAIN h.hdr.players : PlayerOk(h.hdr.players[i])
    /\ \A i \in DOMAIN h.events : h.events[i].at # NoField

\* the seats of a hand, as the players loop leaves them
SeatsOf(h) == LoadPlayers(h.hdr.players, h.hdr.id, EmptyDb, NoSeats).seats

\* the hand row and a row for every raw event of h that is to be stored are
\* in the committed tables
HandCommitted(h) ==
    /\ \E r \in db.hands : r.hand_id = h.hdr.id
    /\ \A i \in DOMAIN h.events :
          LET p == h.events[i].payload IN
          ClaimResolves(p, SeatsOf(h)) =>
             \E k \in DOMAIN db.events :
                db.events[k].hand_id = h.hdr.id /\ db.events[k].raw_entry = p

\* C7: when a hand of a file lacks a required field, the well-formed hands of
\* the same file are still stored and committed.
C7_OnlyBadHandFails ==
    pc \in {"loop", "done"} =>
        \A f \in DOMAIN content : \A i \in DOMAIN content[f] :
            WellFormed(content[f][i]) => HandCommitted(content[f][i])

\* C8: a file whose parse raises does not stop the loop and leaves the
\* committed tables alone; when the next file is started, every hand of every
\* file parsed without error before it is committed and nothing is pending; the
\* run returns only when no file is left.
C8_SequentialBatch ==
    [][/\ (failed' # failed => pc' = "loop" /\ todo' = todo \ {cur'} /\ db' = db)
       /\ ((pc = "loop" /\ pc' = "hands") =>
              /\ tx = db
              /\ \A f \in DOMAIN content :
                    (\A i \in DOMAIN content[f] : WellFormed(content[f][i])) =>
                    (\A i \in DOMAIN content[f] : HandCommitted(content[f][i])))
       /\ (pc' = "done" => todo' = {})]_vars

\* a file failed on a malformed hand, and the file after it was parsed and its
\* event committed
C8_Witness ==
    /\ pc = "move"
    /\ cur \notin failed
    /\ \E f \in failed : \E i \in DOMAIN content[f] : ~WellFormed(content[f][i])
    /\ Len(content[cur]) > 0
    /\ Len(content[cur][1].events) > 0
    /\ Len(db.events) > 0

KeysUnique(t) ==
    /\ \A r, q \in t.hands : r.hand_id = q.hand_id => r = q
    /\ \A r, q \in t.player_hand_cards :
          (r.hand_id = q.hand_id /\ r.player_id = q.player_id) => r = q
    /\ \A r \in t.players :
          r = [player_id |-> r.player_id, player_name |-> r.player_name]

\* C9: ingesting a hand, a (player, name) pair or hole cards whose key is
\* stored changes no stored row and adds no second row for the key.
C9_FirstIngestionKept ==
    [][/\ db.hands \subseteq db'.hands
       /\ db.players \subseteq db'.players
       /\ db.player_hand_cards \subseteq db'.player_hand_cards
       /\ KeysUnique(db')
       /\ (pc = "hands" /\ pc' = "events" =>
              /\ tx.hands \subseteq tx'.hands
              /\ tx.players \subseteq tx'.players
              /\ tx.player_hand_cards \subseteq tx'.player_hand_cards
              /\ KeysUnique(tx'))]_vars

\* hand h1 came twice, first with Alice and then with Al: the rows of the
\* first ingestion stand, and Al is one more name of p1
C9_Witness ==
    /\ pc = "done"
    /\ failed = {}
    /\ db.hands = {[hand_id |-> "h1", dealer_name |-> "p1", started_at |-> <<2, 500>>]}
    /\ db.player_hand_cards =
          {[hand_id |-> "h1", player_id |-> "p1", hole_cards |-> <<"A", "s", ",", "K", "s">>]}
    /\ [player_id |-> "p1", player_name |-> "Al"] \in db.players
    /\ [player_id |-> "p1", player_name |-> "Alice"] \in db.players

(***************************************************************************)
(* Properties of the profit queries (SpecMoney).                           *)
(***************************************************************************)
PlayerIds == {"p1", "p2", Dealer}
HandIds == {e.hand_id : e \in Events}

EventsOf(P, h, acts) == {e \in Events : e.player_id = P /\ e.hand_id = h /\ e.action \in acts}

\* the largest wagering amount of P on street st of hand h, 0 when there is none
LargestWager(P, h, st) ==
    LET amounts == {e.amount : e \in {x \in EventsOf(P, h, WagerActions) : x.stage = st}}
    IN IF amounts = {} THEN 0 ELSE CHOOSE m \in amounts : \A a \in amounts : a <= m

ClaimNet(P, h) ==
    SumF([e \in EventsOf(P, h, {"collect"}) |-> e.amount], EventsOf(P, h, {"collect"}))
    + SumF([e \in EventsOf(P, h, {"returned"}) |-> e.amount], EventsOf(P, h, {"returned"}))
    - SumF([i \in DOMAIN Streets |-> LargestWager(P, h, Streets[i])], DOMAIN Streets)

C2_PositionsSumToTotal ==
    \A row \in get_net_pnl_all_players : \A bare \in BareReads(PositionGroups) :
        LET rows == get_profit_loss_by_position(row.player_id, bare) IN
        rows # {} => SumF([r \in rows |-> r.net_profit], rows) = row.total_net_pnl

(***************************************************************************)
(* Properties of get_priors (SpecStats).                                   *)
(***************************************************************************)
HandsWith(P, stages, acts) ==
    {h \in HandIds : \E e \in Events :
        e.hand_id = h /\ e.player_id = P /\ e.stage \in stages /\ e.action \in acts}

AllStages == {Streets[i] : i \in DOMAIN Streets}
AllActions == {e.action : e \in Events}

\* C10: get_priors holds one row for each player with an event; total_hands
\* counts the hands with an event of the player, vpip_hands the hands with a
\* Preflop call or raise of the player, pfr_hands the hands with a Preflop
\* raise of the player.
C10_PriorsCounts ==
    /\ {r.player_id : r \in get_priors} = {e.player_id : e \in Events}
    /\ \A r, q \in get_priors : r.player_id = q.player_id => r = q
    /\ \A r \in get_priors :
          /\ r.total_hands = Cardinality(HandsWith(r.player_id, AllStages, AllActions))
          /\ r.vpip_hands = Cardinality(HandsWith(r.player_id, {"Preflop"}, {"call", "raise"}))
          /\ r.pfr_hands = Cardinality(HandsWith(r.player_id, {"Preflop"}, {"raise"}))

\* p1 posted the big blind and called only after the flop: one hand, neither
\* VPIP nor PFR
C10_Witness ==
    /\ Len(db.events) = 3
    /\ db.events[1].action = "post_bb" /\ db.events[1].player_id = "p1"
    /\ db.events[2].action = "deal_flop"
    /\ db.events[3].action = "call" /\ db.events[3].player_id = "p1"
    /\ db.events[3].stage = "Flop"
    /\ \E r \in get_priors :
          r.player_id = "p1" /\ r.total_hands = 1 /\ r.vpip_hands = 0 /\ r.pfr_hands = 0

\* the hands in which a Preflop raise of P has a greater id than another
\* Preflop raise of the hand
ClaimThreeBet(P) ==
    {h \in HandIds : \E e1, e2 \in Events :
        /\ e1.hand_id = h /\ e2.hand_id = h
        /\ e1.player_id = P
        /\ e1.stage = "Preflop" /\ e1.action = "raise"
        /\ e2.stage = "Preflop" /\ e2.action = "raise"
        /\ e1.id > e2.id}

\* C11: the three_bet_hands of get_priors and of get_positional_stats count,
\* for a player, the hands in which a Preflop raise of the player follows (by
\* id) another Preflop raise of the hand, each hand once.
C11_ThreeBetHands ==
    /\ \A r \in get_priors :
          r.three_bet_hands = Cardinality(ClaimThreeBet(r.player_id))
    /\ \A P \in PlayerIds :
          /\ {r.hand_id : r \in three_bet(P)} = ClaimThreeBet(P)
          /\ \A bare \in BareReads(PositionGroups) :
                LET rows == get_positional_stats(P, bare) IN
                SumF([r \in rows |-> r.three_bet_hands], rows)
                    = Cardinality(ClaimThreeBet(P))

\* p1 raised, p2 re-raised and p1 raised again: one 3-bet hand for each, the
\* opening raise alone counting for nothing
C11_Witness ==
    /\ Len(db.events) = 3
    /\ \A i \in 1..3 : db.events[i].action = "raise" /\ db.events[i].stage = "Preflop"
    /\ db.events[1].player_id = "p1" /\ db.events[2].player_id = "p2"
    /\ db.events[3].player_id = "p1"
    /\ db.events[1].hand_id = db.events[2].hand_id
    /\ db.events[2].hand_id = db.events[3].hand_id
    /\ \A r \in get_priors : r.three_bet_hands = 1
    /\ Cardinality(ClaimThreeBet("p1")) = 1

\* C12: in every row of get_priors vpip_hands and pfr_hands are at most
\* total_hands, total_hands is at least 1, only players with an event have a
\* row, and vpip_pct and pfr_pct lie between 0 and 100.
C12_PriorsBounds ==
    \A r \in get_priors :
        /\ 0 <= r.vpip_hands /\ r.vpip_hands <= r.total_hands
        /\ 0 <= r.pfr_hands /\ r.pfr_hands <= r.total_hands
        /\ r.total_hands >= 1
        /\ \E e \in Events : e.player_id = r.player_id
        /\ 0 <= r.vpip_pct /\ r.vpip_pct <= 100 * 100
        /\ 0 <= r.pfr_pct /\ r.pfr_pct <= 100 * 100

\* p1 called twice before the flop in its only hand: 100 % VPIP, not 200 %;
\* p2 is a known player without an event and has no row
C12_Witness ==
    /\ Len(db.events) = 2
    /\ \A i \in 1..2 : /\ db.events[i].player_id = "p1"
                        /\ db.events[i].action = "call"
                        /\ db.events[i].stage = "Preflop"
    /\ \E r \in db.players : r.player_id = "p2"
    /\ \A r \in get_priors :
          r.player_id = "p1" /\ r.total_hands = 1 /\ r.vpip_hands = 1
          /\ r.vpip_pct = 100 * 100 /\ r.pfr_pct = 0
    /\ get_priors # {}

\* the participants of hand h and the id of the earliest qualifying Preflop
\* event of each
Participants(h) == {e.player_id : e \in {x \in PositionEvents : x.hand_id = h}}
EarliestId(h, P) ==
    LET ids == GroupIds(<<h, P>>) IN CHOOSE i \in ids : \A j \in ids : i <= j
ClaimRank(h, P) ==
    1 + Cardinality({Q \in Participants(h) : EarliestId(h, Q) < EarliestId(h, P)})

C13_RanksAreOneToN ==
    \A bare \in BareReads(PositionGroups) : \A hc \in hand_counts :
        /\ hc.num_players = Cardinality(Participants(hc.hand_id))
        /\ {pos.player_id : pos \in {x \in positions(bare) : x.hand_id = hc.hand_id}}
              = Participants(hc.hand_id)
        /\ {pos.pos_rank : pos \in {x \in positions(bare) : x.hand_id = hc.hand_id}}
              = 1..hc.num_players

(***************************************************************************)
(* Properties of the pure helpers (SpecPure).                              *)
(***************************************************************************)
\* the rules of the claim, in their order: the label of the first rule that
\* applies
ClaimPosRules(r, n) ==
    << <<n = 2 /\ r = 1, "BTN/SB">>, <<n = 2 /\ r = 2, "BB">>,
       <<n = 2, "Pos " \o ToString(r)>>,
       <<r = 1, "SB">>, <<r = 2, "BB">>, <<r = n, "BTN">>, <<r = n - 1, "CO">>,
       <<r = n - 2, "HJ">>, <<r = 3, "UTG">>,
       <<r = 4 /\ n >= 8, "UTG+1">>, <<r = 4, "MP">>,
       <<r = 5 /\ n >= 9, "MP">>, <<r = 5, "MP+1">>, <<r = 6, "MP+1">>,
       <<TRUE, "Pos " \o ToString(r)>> >>

ClaimPos(rank_col, n_col) ==
    IF rank_col = {} \/ n_col = {} THEN "Unknown"
    ELSE LET rules == ClaimPosRules(CHOOSE r \in rank_col : TRUE, CHOOSE n \in n_col : TRUE)
             first == CHOOSE i \in DOMAIN rules :
                         rules[i][1] /\ \A j \in 1..(i - 1) : ~rules[j][1]
         IN rules[first][2]

\* C14: both copies of map_pos return, for every rank and count, the label
\* of the first rule of the claim that applies, and Unknown when either is
\* missing.
C14_MapPosRules ==
    (call.op = "map_pos" /\ call.done) =>
        /\ call.out[1] = ClaimPos(call.rank, call.n)
        /\ call.out[2] = call.out[1]

\* rank 3 of 3 is the button, not under the gun: r = n comes before r = 3
C14_Witness ==
    /\ call.op = "map_pos" /\ call.done
    /\ call.rank = {3} /\ call.n = {3}
    /\ call.out = <<"BTN", "BTN">>

(***************************************************************************)
(* Properties of calculate_and_store_player_priors (SpecShow).             *)
(***************************************************************************)
PriorsStep == call'.op = "calculate_and_store_player_priors"

HasEvent(P, h) == \E e \in Events : e.player_id = P /\ e.hand_id = h
NeverFolded(P, h) ==
    /\ P # Dealer
    /\ HasEvent(P, h)
    /\ ~\E e \in Events : e.player_id = P /\ e.hand_id = h /\ e.action = "fold"
Collected(P, h) ==
    \E e \in Events : e.player_id = P /\ e.hand_id = h /\ e.action = "collect"

ClaimSawFlop(P) ==
    {h \in HandIds :
        /\ \E e \in Events : e.hand_id = h /\ e.action = "deal_flop"
        /\ HasEvent(P, h)
        /\ ~\E e \in Events : /\ e.player_id = P /\ e.hand_id = h
                               /\ e.action = "fold" /\ e.stage = "Preflop"}

ClaimShowdown(P) ==
    {h \in HandIds :
        /\ NeverFolded(P, h)
        /\ Cardinality({Q \in PlayerIds : NeverFolded(Q, h)}) > 1}

\* stored (in hundredths of a percent) is 100 * num / den to two decimals,
\* and 0 when den is 0
IsPct(stored, num, den) ==
    IF den = 0 THEN stored = 0
    ELSE /\ 2 * (stored * den - 10000 * num) <= den
         /\ 2 * (10000 * num - stored * den) <= den

\* C15: a run stores, for each player, WTSD% = showdown hands / saw-flop
\* hands, WWSF% = saw-flop hands with a collect / saw-flop hands and WSD% =
\* showdown hands with a collect / showdown hands, times 100, and 0 for an
\* empty denominator.
C15_PostFlopPercentages ==
    [][PriorsStep =>
        \A r \in player_priors' :
            LET P == r.player_id
                sf == ClaimSawFlop(P)
                sd == ClaimShowdown(P)
            IN /\ IsPct(r.wtsd_pct, Cardinality(sd), Cardinality(sf))
               /\ IsPct(r.wwsf_pct, Cardinality({h \in sf : Collected(P, h)}),
                        Cardinality(sf))
               /\ IsPct(r.wsd_pct, Cardinality({h \in sd : Collected(P, h)}),
                        Cardinality(sd))]_vars

\* a flop was dealt, p2 checked and p1 collected: both went to showdown, p1
\* won it
C15_Witness ==
    /\ call.op = "calculate_and_store_player_priors"
    /\ Len(db.events) = 3
    /\ db.events[1].action = "deal_flop"
    /\ db.events[2].action = "check" /\ db.events[2].player_id = "p2"
    /\ db.events[3].action = "collect" /\ db.events[3].player_id = "p1"
    /\ \E r \in player_priors :
          /\ r.player_id = "p1"
          /\ r.wtsd_pct = 10000 /\ r.wwsf_pct = 10000 /\ r.wsd_pct = 10000
    /\ \E r \in player_priors :
          /\ r.player_id = "p2"
          /\ r.wtsd_pct = 10000 /\ r.wwsf_pct = 0 /\ r.wsd_pct = 0

ClaimRiverOpps(P) ==
    {h \in ClaimShowdown(P) :
        \E e \in Events : /\ e.player_id = P /\ e.hand_id = h /\ e.stage = "River"
                           /\ e.action \in {"bet", "raise"}}

C17_ProfileTag ==
    (call.op = "profile_tag" /\ call.done) =>
        call.out[1] =
            CASE call.hands < 10 -> "Unknown"
              [] call.hands >= 10 /\ 0 < call.avg /\ call.avg <= 150 -> "Bluff-Heavy/Station"
              [] call.hands >= 10 /\ call.avg >= 300 -> "Under-Bluffing/Nit"
              [] OTHER -> "Regular"

\* exactly 10 hands and no parsed showdown: Regular
C17_Witness ==
    /\ call.op = "profile_tag" /\ call.done
    /\ call.hands = 10 /\ call.avg = 0
    /\ call.out = <<"Regular">>

C19_RunReplacesEveryRow ==
    [][PriorsStep =>
        /\ {r.player_id : r \in player_priors'} = {e.player_id : e \in Events}
        /\ \A r, q \in player_priors' : r.player_id = q.player_id => r = q
        /\ \A r \in player_priors' :
              \E b \in get_priors : b.player_id = r.player_id /\ r = priors_row(b)]_vars

\* the run found a row of p1 with one hand, from a run made before the
\* second file, and left one with two hands
C19_Witness ==
    /\ call.op = "calculate_and_store_player_priors"
    /\ \E r \in call.before : r.player_id = "p1" /\ r.total_hands = 1
    /\ \E r \in player_priors : r.player_id = "p1" /\ r.total_hands = 2

(***************************************************************************)
(* Properties of get_bet_sizing_frequencies (SpecBets).                    *)
(***************************************************************************)
Buckets == {"Small (<33%)", "Medium (33-66%)", "Large (>66%)"}

\* the bet and raise events of P on the flop, turn or river with a stored
\* pot_size above 0
Qualifying(P) ==
    {e \in Events : /\ e.player_id = P
                    /\ e.stage \in {"Flop", "Turn", "River"}
                    /\ e.action \in {"bet", "raise"}
                    /\ e.pot_size > 0}

ClaimBucket(e) ==
    CASE 100 * e.amount < 33 * e.pot_size -> "Small (<33%)"
      [] 100 * e.amount >= 33 * e.pot_size /\ 100 * e.amount <= 66 * e.pot_size
            -> "Medium (33-66%)"
      [] 100 * e.amount > 66 * e.pot_size -> "Large (>66%)"

\* the count of the row in a bucket, 0 for a column the result does not have
CountIn(row, b) == IF b \in DOMAIN row.counts THEN row.counts[b] ELSE 0

GivenCards(c1, c2) ==
    /\ call.op = "_normalize_hole_cards" /\ call.done
    /\ call.cards_str = c1 \o <<",">> \o c2

\* the higher rank, the lower rank, then s or o, nothing for a pair
ClaimCombo(c1, c2) ==
    LET hi == IF rank_order[c1[1]] >= rank_order[c2[1]] THEN c1[1] ELSE c2[1]
        lo == IF rank_order[c1[1]] >= rank_order[c2[1]] THEN c2[1] ELSE c1[1]
    IN IF hi = lo THEN <<hi, lo>>
       ELSE <<hi, lo>> \o (IF c1[2] = c2[2] THEN <<"s">> ELSE <<"o">>)

\* The part of C21 that holds: two cards in either order give the combo.
C21_NormalizeSymmetric ==
    \A c1, c2 \in Cards :
        GivenCards(c1, c2) =>
            /\ call.out[1] = Returns(ClaimCombo(c1, c2))
            /\ normalize_hole_cards(c2 \o <<",">> \o c1) = call.out[1]

\* C21: two cards of recognized ranks normalize in either order to the
\* higher rank, the lower rank and s/o (nothing for a pair), and normalizing
\* that result again returns it unchanged.
C21_NormalizeIdempotent ==
    \A c1, c2 \in Cards :
        GivenCards(c1, c2) =>
            /\ call.out[1] = Returns(ClaimCombo(c1, c2))
            /\ normalize_hole_cards(c2 \o <<",">> \o c1) = call.out[1]
            /\ normalize_hole_cards(call.out[1].value) = call.out[1]

(***************************************************************************)
(* Properties of get_pnl_by_hand (SpecCards).                              *)
(***************************************************************************)
\* the hands in which P was dealt cards that normalize to combo
DealtCombo(P, combo) ==
    {r.hand_id : r \in {x \in db.player_hand_cards :
                            /\ x.player_id = P
                            /\ normalize_hole_cards(x.hole_cards) = Returns(combo)}}

DealtCombos(P) ==
    {normalize_hole_cards(r.hole_cards).value :
        r \in {x \in db.player_hand_cards : x.player_id = P}}

\* What holds of get_pnl_by_hand: the rows are the combos of the hands with
\* a wagering event of the player, and times_dealt counts those hands only.
C22_PnlByHandOfWageredHands ==
    \A P \in PlayerIds :
        LET wagered(k) == {h \in DealtCombo(P, k) : EventsOf(P, h, WagerActions) # {}}
            res == get_pnl_by_hand(P)
        IN /\ ~res.raised
           /\ {r.hand_combo : r \in res.rows} = {k \in DealtCombos(P) : wagered(k) # {}}
           /\ \A r \in res.rows :
                 /\ r.times_dealt = Cardinality(wagered(r.hand_combo))
                 /\ r.total_pnl = SumF([h \in wagered(r.hand_combo) |-> ClaimNet(P, h)],
                                       wagered(r.hand_combo))

\* C22: get_pnl_by_hand has one row for each combo the player was dealt;
\* total_pnl is the sum of the player's net profit over the hands dealt that
\* combo, in either order of the cards, and times_dealt is the number of
\* those hands.
C22_PnlByHand ==
    \A P \in PlayerIds :
        LET res == get_pnl_by_hand(P)
        IN /\ ~res.raised
           /\ {r.hand_combo : r \in res.rows} = DealtCombos(P)
           /\ \A r, q \in res.rows : r.hand_combo = q.hand_combo => r = q
           /\ \A r \in res.rows :
                 /\ r.times_dealt = Cardinality(DealtCombo(P, r.hand_combo))
                 /\ r.total_pnl = SumF([h \in DealtCombo(P, r.hand_combo) |-> ClaimNet(P, h)],
                                       DealtCombo(P, r.hand_combo))

(***************************************************************************)
(* Properties of get_positional_stats against get_priors (SpecStats).      *)
(***************************************************************************)
\* the hands in which P posted or acted before the flop
PositionHands(P) == {e.hand_id : e \in {x \in PositionEvents : x.player_id = P}}

\* the hands with any event of P
HandsOf(P) == {e.hand_id : e \in {x \in Events : x.player_id = P}}

\* the column of the row of P in get_priors, 0 when P has no row
PriorsOf(P, col) == Coalesce({r[col] : r \in {x \in get_priors : x.player_id = P}})

RowsSum(rows, col) == SumF([r \in rows |-> r[col]], rows)

\* what the position rows of P satisfy under every read of the bare id,
\* total_hands adding up to n
PositionRowsAddUp(P, n) ==
    \A bare \in BareReads(PositionGroups) :
        LET rows == get_positional_stats(P, bare) IN
        /\ \A h \in PositionHands(P) :
              Cardinality({j \in positional_joined(P, bare) : j.hand_id = h}) = 1
        /\ \A r, q \in rows : r.position = q.position => r = q
        /\ RowsSum(rows, "total_hands") = n
        /\ \A r \in rows :
              /\ 0 <= r.vpip_hands /\ r.vpip_hands <= r.total_hands
              /\ 0 <= r.pfr_hands /\ r.pfr_hands <= r.total_hands
              /\ 0 <= r.three_bet_hands /\ r.three_bet_hands <= r.total_hands
        /\ RowsSum(rows, "vpip_hands") = PriorsOf(P, "vpip_hands")
        /\ RowsSum(rows, "pfr_hands") = PriorsOf(P, "pfr_hands")
        /\ RowsSum(rows, "three_bet_hands") = PriorsOf(P, "three_bet_hands")

SeenAs(P, name) ==
    {content["f1"][i].hdr.id :
        i \in {j \in DOMAIN content["f1"] :
                  \E k \in DOMAIN content["f1"][j].hdr.players :
                      /\ content["f1"][j].hdr.players[k].id = P
                      /\ content["f1"][j].hdr.players[k].name = name}}

\* the names under which P was seen in the largest number of hands
MostSeen(P) ==
    {r.player_name : r \in {x \in db.players :
        /\ x.player_id = P
        /\ \A y \in db.players :
              y.player_id = P =>
                 Cardinality(SeenAs(P, y.player_name)) <= Cardinality(SeenAs(P, x.player_name))}}

\* What holds of the display name: each player of the players table is in
\* one row of get_net_pnl_all_players and each player with an event in one
\* row of get_priors, under one of the names stored for the player.
C24_OneDisplayNamePerPlayer ==
    \A names \in NameReads({r.player_id : r \in db.players}) :
        /\ \A r, q \in get_priors_names(names) : r.player_id = q.player_id => r = q
        /\ \A r, q \in get_net_pnl_names(names) : r.player_id = q.player_id => r = q
        /\ \A r \in get_priors_names(names) \cup get_net_pnl_names(names) :
              r.display_name \subseteq
                  {x.player_name : x \in {y \in db.players : y.player_id = r.player_id}}

\* C24: the display name of a player in get_priors, get_net_pnl_all_players
\* and get_exploit_targets is the name seen in the largest number of hands,
\* and a player of several names is in one row.
C24_DisplayNameIsMostSeen ==
    \A names \in NameReads({r.player_id : r \in db.players}) :
        /\ \A r, q \in get_priors_names(names) : r.player_id = q.player_id => r = q
        /\ \A r, q \in get_net_pnl_names(names) : r.player_id = q.player_id => r = q
        /\ \A r \in get_priors_names(names) \cup get_net_pnl_names(names)
                        \cup get_exploit_targets(names) :
              r.display_name \subseteq MostSeen(r.player_id)

(***************************************************************************)
(* Properties of get_hero_leaks (SpecPure).                                *)
(***************************************************************************)
InList(l, m) == \E i \in DOMAIN l : l[i] = m

\* C25: for a hero with a stored row the list is not empty and holds each
\* warning exactly under its condition (WTSD above 32, WTSD between 0 and
\* 25, WSD between 0 and 50, WWSF between 0 and 45, the bounds excluded) and
\* the no-major-leaks message exactly when there is no warning; with no
\* stored row the result is None.
C25_HeroLeaks ==
    (call.op = "get_hero_leaks" /\ call.done) =>
        IF call.df = {} THEN call.out = <<None>>
        ELSE \A hero \in call.df :
             LET leaks == call.out[1]
                 station == hero.wtsd_pct > 32 * 100
                 folding == 0 < hero.wtsd_pct /\ hero.wtsd_pct < 25 * 100
                 losing == 0 < hero.wsd_pct /\ hero.wsd_pct < 50 * 100
                 giving == 0 < hero.wwsf_pct /\ hero.wwsf_pct < 45 * 100
             IN /\ leaks # <<>>
                /\ InList(leaks, CallingStation) <=> station
                /\ InList(leaks, FoldingTooMuch) <=> folding
                /\ InList(leaks, LosingAtShowdown) <=> losing
                /\ InList(leaks, GivingUp) <=> giving
                /\ InList(leaks, NoMajorLeaks)
                      <=> ~(station \/ folding \/ losing \/ giving)
                /\ InList(leaks, NoMajorLeaks) => Len(leaks) = 1

\* a hero at exactly 32 % WTSD, 50 % WSD and 45 % WWSF got the single
\* no-major-leaks message
C25_Witness ==
    /\ call.op = "get_hero_leaks" /\ call.done
    /\ call.df = {[player_id |-> "p1", wtsd_pct |-> 3200, wsd_pct |-> 5000, wwsf_pct |-> 4500]}
    /\ call.out = << <<NoMajorLeaks>> >>

C26_RowReplaced ==
    /\ call.op = "priors_commit"
    /\ \E r \in call.before : r.player_id = "p1" /\ r.total_hands = 1
    /\ \E r \in player_priors : r.player_id = "p1" /\ r.total_hands = 2

\* a run raised after its first INSERT OR REPLACE: the connection holds the
\* row, the stored table does not
C26_RaisedMidway ==
    /\ call.op = "priors_raise"
    /\ conn.view # <<>>
    /\ conn.view[1] # player_priors

\* C27: whatever runs were made, a raw event of a hand has no more rows in
\* the event store than the files hold occurrences of it.
Occurrences(h, e) ==
    LET RECURSIVE CountE(_)
        CountE(es) == IF es = <<>> THEN 0
                      ELSE (IF Head(es) = e THEN 1 ELSE 0) + CountE(Tail(es))
        RECURSIVE CountH(_)
        CountH(hs) == IF hs = <<>> THEN 0
                      ELSE (IF Head(hs).hdr.id = h THEN CountE(Head(hs).events) ELSE 0)
                           + CountH(Tail(hs))
        RECURSIVE CountF(_)
        CountF(F) == IF F = {} THEN 0
                     ELSE LET f == CHOOSE f \in F : TRUE
                          IN CountH(content[f]) + CountF(F \ {f})
    IN CountF(DOMAIN content)

StoredRows(h, e) ==
    Cardinality({i \in DOMAIN db.events :
                    /\ db.events[i].hand_id = h
                    /\ db.events[i].raw_entry = e.payload
                    /\ db.events[i].timestamp = IsoFormat(e.at)})

C27_EventStoredAtMostOnce ==
    \A h \in {"h1"} : \A e \in RetryRaws : StoredRows(h, e) <= Occurrences(h, e)

\* C28: every percentage of a stored player_priors row lies between 0 and
\* 100 (in hundredths of a percent), and no player has more showdown hands
\* than saw-flop hands.
PctColumns(r) ==
    {r.vpip_pct, r.pfr_pct, r.three_bet_pct, r.wtsd_pct, r.wsd_pct, r.wwsf_pct,
     r.river_bluff_freq}

C28_PercentagesWithin100 ==
    /\ \A r \in player_priors : \A x \in PctColumns(r) : 0 <= x /\ x <= 10000
    /\ \A a \in adv_stats : a.showdowns_seen <= a.flops_seen

\* the stored went-to-showdown percentage of p1 is 200
C28_WtsdAbove100 ==
    \E r \in player_priors : r.player_id = "p1" /\ r.wtsd_pct = 20000

\* the six other percentages of a stored row lie between 0 and 100
C28_OtherPercentagesWithin100 ==
    \A r \in player_priors :
        \A x \in PctColumns(r) \ {r.wtsd_pct} : 0 <= x /\ x <= 10000

\* C29: in a hand whose raw values are not negative and whose returns are
\* each covered by the last bet or raise (type 8) of the same seat before
\* it, every stored event carries a pot_size >= 0.
NonNegativeValues(es) ==
    \A i \in DOMAIN es : PayloadValue(es[i].payload) >= 0 /\ CollectValue(es[i].payload) >= 0

ReturnsCovered(es) ==
    \A i \in DOMAIN es :
        es[i].payload.type = 16 =>
            LET before == {j \in 1..(i - 1) : /\ es[j].payload.type = 8
                                              /\ es[j].payload.seat = es[i].payload.seat}
            IN /\ before # {}
               /\ LET last == CHOOSE j \in before : \A k \in before : k <= j
                  IN PayloadValue(es[i].payload) <= PayloadValue(es[last].payload)

RecordsOf(h) ==
    UNION {{content[f][i] : i \in {j \in DOMAIN content[f] : content[f][j].hdr.id = h}} :
              f \in DOMAIN content}

C29_PotNeverNegative ==
    \A h \in {r.hand_id : r \in db.hands} :
        (\A hr \in RecordsOf(h) : NonNegativeValues(hr.events) /\ ReturnsCovered(hr.events)) =>
            \A i \in DOMAIN db.events :
                db.events[i].hand_id = h => db.events[i].pot_size >= 0

\* a raise of 300 and its return: the stored return carries pot_size -300
C29_ReturnOfARaise ==
    \E i \in DOMAIN db.events :
        /\ db.events[i].action = "returned"
        /\ db.events[i].pot_size = -30000
        /\ \E j \in 1..(i - 1) : /\ db.events[j].action = "raise"
                                  /\ db.events[j].amount = 30000
                                  /\ db.events[j].player_id = db.events[i].player_id

\* C30: the stage and pot_size stored on the events of a hand are those
\* parse_json stores for the list of the hand without its dropped events.
Dropped(e, seats) == ~Stored(ActionOf(e.payload), PlayerOf(e.payload, seats))

WithoutDropped(hr) ==
    LET seats == SeatsOf(hr) IN SelectSeq(hr.events, LAMBDA e : ~Dropped(e, seats))

StageAndPot(rows) == [i \in DOMAIN rows |-> <<rows[i].stage, rows[i].pot_size>>]

StoredOf(h) == SelectSeq(db.events, LAMBDA r : r.hand_id = h)

StoredWithoutDropped(hr) ==
    ParseEvents(WithoutDropped(hr), EmptyDb, hr.hdr.id, hr.hdr.cents, SeatsOf(hr),
                "Preflop", 0).t.events

C30_DroppedEventsChangeNothing ==
    \A h \in {r.hand_id : r \in db.hands} :
        Cardinality(RecordsOf(h)) = 1 =>
            LET hr == CHOOSE x \in RecordsOf(h) : TRUE
            IN StageAndPot(StoredOf(h)) = StageAndPot(StoredWithoutDropped(hr))

\* C30 for the events dropped for want of an action (a board deal whose
\* turn is not 1, 2 or 3): if a hand drops no other event, the stored stage
\* and pot_size are those of the list without them.
DroppedForPlayer(e, seats) ==
    ActionOf(e.payload) # None /\ PlayerOf(e.payload, seats) = None

C30_DealsWithoutTurnChangeNothing ==
    \A h \in {r.hand_id : r \in db.hands} :
        Cardinality(RecordsOf(h)) = 1 =>
            LET hr == CHOOSE x \in RecordsOf(h) : TRUE
            IN (\A i \in DOMAIN hr.events : ~DroppedForPlayer(hr.events[i], SeatsOf(hr))) =>
                  StageAndPot(StoredOf(h)) = StageAndPot(StoredWithoutDropped(hr))

\* a call of 300 from a seat nobody holds was dropped, and the check stored
\* after it carries pot_size 300
C30_DroppedCallRaisedThePot ==
    \E h \in {r.hand_id : r \in db.hands} : \E hr \in RecordsOf(h) :
        /\ Len(hr.events) = 2
        /\ hr.events[1].payload.type = 7 /\ hr.events[1].payload.seat = 3
        /\ Len(StoredOf(h)) = 1
        /\ StoredOf(h)[1].pot_size = 30000

\* a board deal without a turn was dropped before a stored event
C30_DealWithoutTurnDropped ==
    \E h \in {r.hand_id : r \in db.hands} : \E hr \in RecordsOf(h) :
        /\ Len(hr.events) = 2
        /\ hr.events[1].payload.type = 9 /\ hr.events[1].payload.turn \notin {1, 2, 3}
        /\ Len(StoredOf(h)) = 1

====
